---- MODULE Spec2Model ----
(***************************************************************************)
(* Audiobookshelf Sync plugin for calibre: the sync orchestrator           *)
(* (AudiobookshelfAction.sync_from_audiobookshelf), its worker thread      *)
(* (ABSSyncWorker.run), the commit (update_metadata) and the writeback     *)
(* listener (watcher.event_listener), as a state machine.                  *)
(*                                                                         *)
(* Python values are records [k, n, s, l]: k the runtime type, n the       *)
(* number (a float is kept in hundredths, a bool as 0/1, a datetime as its *)
(* POSIX second), s the characters of a str or the tzinfo of a datetime    *)
(* (empty when naive), l the items of a list of str. A str is the sequence *)
(* of its characters.                                                      *)
(***************************************************************************)
EXTENDS Integers, Sequences, FiniteSets, TLC

\* ------------------------------------------------------------------ bounds
NumBooks == 2
MaxSyncs == 2
MaxEdits == 1

\* ------------------------------------------------------------ Python values
PyNone == [k |-> "none", n |-> 0, s |-> <<>>, l |-> <<>>]
PyBool(b) == [k |-> "bool", n |-> IF b THEN 1 ELSE 0, s |-> <<>>, l |-> <<>>]
PyInt(i) == [k |-> "int", n |-> i, s |-> <<>>, l |-> <<>>]
PyFloat(h) == [k |-> "float", n |-> h, s |-> <<>>, l |-> <<>>]
PyDate(t) == [k |-> "datetime", n |-> t, s |-> <<>>, l |-> <<>>]
PyDateTz(t) == [k |-> "datetime", n |-> t, s |-> <<"UTC">>, l |-> <<>>]
PyStr(chars) == [k |-> "str", n |-> 0, s |-> chars, l |-> <<>>]
PyList(items) == [k |-> "list", n |-> 0, s |-> <<>>, l |-> items]
PyTuple(name, index) == [k |-> "tuple", n |-> index, s |-> name, l |-> <<>>]
PyDict(d) == [k |-> "dict", d |-> d]
Raised == [k |-> "raise", n |-> 0, s |-> <<>>, l |-> <<>>]

\* bool(x): the truth value of a Python value
Truthy(x) ==
    CASE x.k = "none" -> FALSE
      [] x.k \in {"bool", "int", "float"} -> x.n # 0
      [] x.k = "str" -> x.s # <<>>
      [] x.k = "list" -> x.l # <<>>
      [] x.k = "dict" -> DOMAIN x.d # {}
      [] OTHER -> TRUE

\* ------------------------------------------------------------------ strings
RECURSIVE LStrip(_)
LStrip(chars) ==
    IF chars # <<>> /\ Head(chars) = " " THEN LStrip(Tail(chars)) ELSE chars

RECURSIVE RStrip(_)
RStrip(chars) ==
    IF chars # <<>> /\ chars[Len(chars)] = " "
    THEN RStrip(SubSeq(chars, 1, Len(chars) - 1))
    ELSE chars

\* str.strip()
Strip(chars) == RStrip(LStrip(chars))

\* str.split(sep); sep is a non-empty str
RECURSIVE SplitAcc(_, _, _)
SplitAcc(chars, sep, cur) ==
    IF chars = <<>> THEN <<cur>>
    ELSE IF Len(chars) >= Len(sep) /\ SubSeq(chars, 1, Len(sep)) = sep
         THEN <<cur>> \o SplitAcc(SubSeq(chars, Len(sep) + 1, Len(chars)), sep, <<>>)
         ELSE SplitAcc(Tail(chars), sep, Append(cur, Head(chars)))

Split(chars, sep) == SplitAcc(chars, sep, <<>>)

\* sep.join(items)
RECURSIVE Join(_, _)
Join(items, sep) ==
    IF items = <<>> THEN <<>>
    ELSE IF Len(items) = 1 THEN items[1]
    ELSE items[1] \o sep \o Join(Tail(items), sep)

\* str(list of str): "['a', 'b']"
ReprList(items) ==
    <<"[">> \o Join([i \in 1..Len(items) |-> <<"'">> \o items[i] \o <<"'">>],
                    <<",", " ">>) \o <<"]">>

\* the decimal digits of a natural number, as characters
RECURSIVE Digits(_)
Digits(i) ==
    IF i < 10 THEN <<ToString(i)>> ELSE Digits(i \div 10) \o <<ToString(i % 10)>>

\* f"{h}:{m:02d}" of a number of seconds
HrsMin(secs) ==
    Digits(secs \div 3600) \o <<":">> \o
    (LET m == (secs % 3600) \div 60 IN <<ToString(m \div 10), ToString(m % 10)>>)

\* ------------------------------------------------------------ conversions
IsDigit(c) == c \in {"0", "1", "2", "3", "4", "5", "6", "7", "8", "9"}

DigitVal(c) == CHOOSE d \in 0..9 : ToString(d) = c

RECURSIVE NatOf(_)
NatOf(chars) ==
    IF chars = <<>> THEN 0
    ELSE 10 * NatOf(SubSeq(chars, 1, Len(chars) - 1)) + DigitVal(chars[Len(chars)])

AllDigits(chars) == chars # <<>> /\ \A i \in 1..Len(chars) : IsDigit(chars[i])

\* str(float) of a non-negative float kept in hundredths: "30.0", "30.25"
FloatChars(h) ==
    Digits(h \div 100) \o <<".">> \o
    (IF h % 10 = 0 THEN <<ToString((h % 100) \div 10)>>
     ELSE <<ToString((h % 100) \div 10), ToString(h % 10)>>)

\* str(value)
Str(value) ==
    CASE value.k = "none" -> <<"None">>
      [] value.k = "bool" -> IF value.n = 1 THEN <<"True">> ELSE <<"False">>
      [] value.k = "int" -> Digits(value.n)
      [] value.k = "float" -> FloatChars(value.n)
      [] value.k = "datetime" -> <<"@">> \o Digits(value.n)
      [] value.k = "str" -> value.s
      [] value.k = "list" -> ReprList(value.l)
      [] value.k = "tuple" ->
            <<"(", "'">> \o value.s \o <<"'", ",", " ">> \o FloatChars(value.n)
            \o <<")">>
      [] OTHER -> <<"{}">>

\* int(value); Raised where Python raises
ToInt(value) ==
    CASE value.k \in {"bool", "int"} -> PyInt(value.n)
      [] value.k = "float" -> PyInt(value.n \div 100)
      [] value.k = "str" ->
            IF AllDigits(Strip(value.s)) THEN PyInt(NatOf(Strip(value.s))) ELSE Raised
      [] OTHER -> Raised

\* float(value); Raised where Python raises
ToFloat(value) ==
    CASE value.k \in {"bool", "int"} -> PyFloat(value.n * 100)
      [] value.k = "float" -> value
      [] value.k = "str" ->
            IF AllDigits(Strip(value.s)) THEN PyFloat(NatOf(Strip(value.s)) * 100)
            ELSE Raised
      [] OTHER -> Raised

\* ------------------------------------------------------- column registry
\* The entries of CUSTOM_COLUMN_DEFAULTS the model follows, keyed by config
\* key. starred: the config label carries '*' (a writeback column).
COLUMNS ==
    [column_audiobook_title |->
        [column_heading |-> "Audiobook Title", datatype |-> "text",
         api_source |-> "lib_items", starred |-> TRUE,
         data_location |-> <<"media", "metadata", "title">>],
     column_audiobook_narrator |->
        [column_heading |-> "Audiobook Narrator", datatype |-> "text",
         api_source |-> "lib_items", starred |-> TRUE,
         data_location |-> <<"media", "metadata", "narratorName">>],
     column_audiobook_series |->
        [column_heading |-> "Audiobook Series", datatype |-> "series",
         api_source |-> "lib_items", starred |-> TRUE,
         data_location |-> <<"media", "metadata", "seriesName">>],
     column_audiobook_lastread |->
        [column_heading |-> "Audiobook Last Read Date", datatype |-> "datetime",
         api_source |-> "mediaProgress", starred |-> FALSE,
         data_location |-> <<"lastUpdate">>],
     column_audiobook_progress_float |->
        [column_heading |-> "Audiobook Precise Progress", datatype |-> "float",
         api_source |-> "mediaProgress", starred |-> FALSE,
         data_location |-> <<"progress">>],
     column_audiobook_progress_int |->
        [column_heading |-> "Audiobook Progress", datatype |-> "int",
         api_source |-> "mediaProgress", starred |-> FALSE,
         data_location |-> <<"progress">>],
     column_audiobook_progress_time_remaining |->
        [column_heading |-> "Audiobook Time Remaining", datatype |-> "text",
         api_source |-> "mediaProgress", starred |-> FALSE,
         data_location |-> <<>>],
     column_audiobook_finished |->
        [column_heading |-> "Audiobook Finished?", datatype |-> "bool",
         api_source |-> "mediaProgress", starred |-> FALSE,
         data_location |-> <<"isFinished">>],
     column_audiobook_started |->
        [column_heading |-> "Audiobook Started?", datatype |-> "bool",
         api_source |-> "mediaProgress", starred |-> FALSE,
         data_location |-> <<>>],
     column_audiobook_listen_time |->
        [column_heading |-> "Audiobook Listen Time", datatype |-> "text",
         api_source |-> "sessions", starred |-> FALSE,
         data_location |-> <<"total_time_listening">>],
     column_audiobook_collections |->
        [column_heading |-> "Audiobook Collections", datatype |-> "text",
         api_source |-> "collections", starred |-> TRUE,
         data_location |-> <<"collections">>]]

ColumnKeys == DOMAIN COLUMNS

\* dict.get(key)
DictGet(data, key) == IF key \in DOMAIN data.d THEN data.d[key] ELSE PyNone

\* The traversal that returns the node it cannot descend into
RECURSIVE get_nested_node(_, _)
get_nested_node(data, path) ==
    IF path = <<>> THEN data
    ELSE IF data.k = "none" THEN PyNone
    ELSE IF data.k = "dict"
         THEN get_nested_node(DictGet(data, Head(path)), Tail(path))
         ELSE data

RECURSIVE get_nested_value(_, _)
get_nested_value(data, path) ==
    IF path = <<>> THEN data
    ELSE IF data.k = "none" THEN PyNone
    ELSE IF data.k = "dict"
         THEN get_nested_value(DictGet(data, Head(path)), Tail(path))
         ELSE PyNone

\* The 'transform' lambda of each registry entry; Raised when it raises.
Transform(key, value) ==
    CASE key = "column_audiobook_narrator" ->
            IF value.k # "str" THEN Raised
            ELSE IF ~Truthy(value) THEN PyNone
            ELSE LET parts == Split(value.s, <<",">>)
                 IN PyList([i \in 1..Len(parts) |-> Strip(parts[i])])
      [] key = "column_audiobook_series" ->
            IF value.k # "str" THEN Raised
            ELSE IF ~Truthy(value) THEN PyNone
            ELSE LET parts == Split(value.s, <<" ", "#">>)
                     index == IF Len(parts) > 1
                              THEN ToFloat(PyStr(Split(parts[2], <<",">>)[1]))
                              ELSE PyFloat(100)
                 IN IF index.k = "raise" THEN Raised
                    ELSE PyTuple(Strip(parts[1]), index.n)
      [] key = "column_audiobook_lastread" ->
            IF value.k \notin {"int", "float"} THEN Raised
            ELSE PyDate(value.n \div 1000)
      [] key = "column_audiobook_progress_float" ->
            IF value.k = "float" THEN PyFloat(value.n * 100)
            ELSE IF value.k \in {"int", "bool"} THEN PyFloat(value.n * 10000)
            ELSE Raised
      [] key = "column_audiobook_progress_int" ->
            IF value.k = "float" THEN PyInt(value.n)
            ELSE IF value.k \in {"int", "bool"} THEN PyInt(value.n * 100)
            ELSE Raised
      [] key = "column_audiobook_progress_time_remaining" ->
            IF value.k # "dict" THEN Raised
            ELSE IF "duration" \notin DOMAIN value.d
                    \/ "currentTime" \notin DOMAIN value.d THEN Raised
            ELSE PyStr(HrsMin((value.d["duration"].n
                               - value.d["currentTime"].n) \div 100))
      [] key = "column_audiobook_finished" -> PyBool(Truthy(value))
      [] key = "column_audiobook_started" -> PyBool(Truthy(value))
      [] key = "column_audiobook_listen_time" ->
            IF ToFloat(value).k = "raise" THEN Raised
            ELSE PyStr(HrsMin(ToFloat(value).n \div 100))
      [] OTHER -> value

\* ------------------------------------------------------ the remote server
\* GET /api/libraries/{id}/items, as the items of get_abs_library_items
LibraryItem(id, title, narratorName, seriesName, asin) ==
    PyDict(("id" :> PyStr(<<id>>))
        @@ ("media" :> PyDict(
              "metadata" :> PyDict(("title" :> PyStr(title))
                                @@ ("narratorName" :> PyStr(narratorName))
                                @@ ("seriesName" :> PyStr(seriesName))
                                @@ ("asin" :> asin)))))

abs_items ==
    << [id |-> "i1",
        item |-> LibraryItem("i1", <<"A">>, <<"N", ",", " ", "M">>,
                             <<"S", " ", "#", "2">>, PyStr(<<"B1">>))],
       [id |-> "i2",
        item |-> LibraryItem("i2", <<" ", "B">>, <<>>, <<>>, PyNone)] >>

\* GET /api/me: one progress record (item i1) and one bookmark (item i2,
\* which has no progress record)
me_data ==
    [mediaProgress |->
        << [libraryItemId |-> "i1",
            prog |-> ("progress" :> PyFloat(30))
                  @@ ("currentTime" :> PyFloat(390000))
                  @@ ("duration" :> PyFloat(750000))
                  @@ ("lastUpdate" :> PyInt(2000))
                  @@ ("isFinished" :> PyBool(FALSE))] >>,
     bookmarks |-> << [libraryItemId |-> "i2", title |-> <<"m">>] >>]

ServerIds == {abs_items[i].id : i \in 1..Len(abs_items)}

\* items_dict = {item['id']: item for item in abs_items}
RECURSIVE ItemsDict(_)
ItemsDict(items) ==
    IF items = <<>> THEN <<>>
    ELSE LET last == items[Len(items)]
         IN (last.id :> last.item) @@ ItemsDict(SubSeq(items, 1, Len(items) - 1))

items_dict == ItemsDict(abs_items)

\* media_progress_dict: every progress record with an empty bookmark list ...
RECURSIVE ProgressDict(_)
ProgressDict(records) ==
    IF records = <<>> THEN <<>>
    ELSE LET last == records[Len(records)]
         IN (last.libraryItemId :> PyDict(("bookmarks" :> PyList(<<>>)) @@ last.prog))
            @@ ProgressDict(SubSeq(records, 1, Len(records) - 1))

\* ... then every bookmark appended to the record of its item, which setdefault
\* creates when absent. A bookmark is kept by its title.
RECURSIVE AddBookmarks(_, _)
AddBookmarks(dict, marks) ==
    IF marks = <<>> THEN dict
    ELSE LET id == Head(marks).libraryItemId
             record == IF id \in DOMAIN dict THEN dict[id]
                       ELSE PyDict("bookmarks" :> PyList(<<>>))
             marked == PyDict(("bookmarks" :>
                                 PyList(Append(record.d["bookmarks"].l, Head(marks).title)))
                              @@ record.d)
         IN AddBookmarks((id :> marked) @@ dict, Tail(marks))

media_progress_dict == AddBookmarks(ProgressDict(me_data.mediaProgress), me_data.bookmarks)

ItemGet(abs_id) == IF abs_id \in DOMAIN items_dict THEN items_dict[abs_id] ELSE PyNone

ProgressGet(abs_id) ==
    IF abs_id \in DOMAIN media_progress_dict THEN media_progress_dict[abs_id]
    ELSE PyNone

\* sessions_dict: item i1 was listened to for 100 seconds
sessions_dict == "i1" :> PyDict("total_time_listening" :> PyInt(100))

\* sessions_dict.get(abs_id, {})
SessionsGet(abs_id) ==
    IF abs_id \in DOMAIN sessions_dict THEN sessions_dict[abs_id] ELSE PyDict(<<>>)

\* collections_dict of get_abs_collections: item i1 is in collection C and
\* in playlist P
collections_dict == "i1" :> PyList(<< <<"C">>, <<"P", "L", " ", "P">> >>)

\* collections_dict.get(abs_id, [])
CollectionsGet(abs_id) ==
    IF abs_id \in DOMAIN collections_dict THEN collections_dict[abs_id] ELSE PyList(<<>>)

\* The coercion that compares the series name and not the index
CoerceSeriesByName(old_value, value, datatype, old_index) ==
    LET v == IF old_value.k # value.k
             THEN IF old_value.k = "str" /\ value.k = "list"
                  THEN PyStr(Join(value.l, <<",", " ">>))
                  ELSE IF datatype = "series"
                  THEN IF value.k = "tuple" /\ old_value.k = "str"
                          /\ old_value.s = value.s
                       THEN old_value
                       ELSE value
                  ELSE IF old_value.k = "bool" THEN PyBool(Truthy(value))
                  ELSE IF old_value.k = "int" THEN ToInt(value)
                  ELSE IF old_value.k = "float" THEN ToFloat(value)
                  ELSE PyStr(Str(value))
             ELSE value
    IN IF v.k = "str" THEN PyStr(Strip(v.s)) ELSE v

\* The type coercion of the candidate against the existing value, and the
\* strip of a str (ABSSyncWorker.run, the block under "if type(old_value) !=
\* type(value)").
Coerce(old_value, value, datatype, old_index) ==
    LET v == IF old_value.k # value.k
             THEN IF old_value.k = "str" /\ value.k = "list"
                  THEN PyStr(Join(value.l, <<",", " ">>))
                  ELSE IF datatype = "series"
                  THEN IF value.k = "tuple" /\ old_value.k = "str"
                          /\ old_value.s = value.s
                          /\ old_index.k \in {"int", "float"}
                          /\ ToFloat(old_index).n = value.n
                       THEN old_value
                       ELSE value
                  ELSE IF old_value.k = "bool" THEN PyBool(Truthy(value))
                  ELSE IF old_value.k = "int" THEN ToInt(value)
                  ELSE IF old_value.k = "float" THEN ToFloat(value)
                  ELSE PyStr(Str(value))
             ELSE value
    IN IF v.k = "str" THEN PyStr(Strip(v.s)) ELSE v

\* ------------------------------------------------------------------ CONFIG
\* A configuration: columns is the set of config keys bound to a column
\* (CONFIG.get(key) is not empty); a bound column is named by its config key.
\* status_keys: the configuration file holds 'column_audiobook_status_text',
\* 'column_audiobook_status_enum' and 'audiobook_status_texts_finished', for
\* which config.py registers no default.
Config(columns, multiple, finished_skip, status_keys, more_recent, asin_sync, writeback) ==
    [columns |-> columns,
     narrator_is_multiple |-> multiple,
     checkbox_no_sync_if_finished |-> finished_skip,
     status_keys |-> status_keys,
     checkbox_sync_only_if_more_recent |-> more_recent,
     checkbox_enable_Audible_ASIN_sync |-> asin_sync,
     checkbox_enable_writeback |-> writeback,
     abs_key |-> "k"]

\* CONFIG[key] of a column key: the lookup name, '' when not bound
ConfigGet(cfg, key) == IF key \in cfg.columns THEN key ELSE ""

\* columns_to_sync
columns_to_sync(cfg) == cfg.columns

\* metadata.get(name) of a custom column; None for a name that is no column
MetaGet(metadata, name) ==
    IF name \in DOMAIN metadata.cols THEN metadata.cols[name] ELSE PyNone

\* -------------------------------------------------------- reconciliation
\* The raw value of a column for an entity (ABSSyncWorker.run, the api_source
\* dispatch), before the transform.
ResolveIn(key, progress, item_data, sessions, collections) ==
    LET col_meta == COLUMNS[key] IN
    IF col_meta.api_source = "mediaProgress"
    THEN LET value == get_nested_value(progress, col_meta.data_location)
             percent == get_nested_value(progress,
                            COLUMNS["column_audiobook_progress_float"].data_location)
         IN IF col_meta.column_heading = "Audiobook Started" /\ value.k = "none"
            THEN IF percent.k \notin {"int", "float", "bool"} THEN Raised
                 ELSE IF percent.n > 0 THEN PyBool(TRUE) ELSE value
            ELSE value
    ELSE IF col_meta.api_source = "lib_items"
    THEN get_nested_value(item_data, col_meta.data_location)
    ELSE IF col_meta.api_source = "sessions"
    THEN get_nested_value(sessions, col_meta.data_location)
    ELSE IF col_meta.api_source = "collections"
    THEN collections
    ELSE PyNone

\* The raw value of a column for the item of the given id, each payload
\* looked up as the worker does: media_progress_dict.get(abs_id),
\* items_dict.get(abs_id), sessions_dict.get(abs_id, {}) and
\* collections_dict.get(abs_id, [])
Resolve(key, abs_id) ==
    ResolveIn(key, ProgressGet(abs_id), ItemGet(abs_id), SessionsGet(abs_id),
              CollectionsGet(abs_id))

\* The value offered for a column after transform, coercion and strip: PyNone
\* when there is none, Raised when resolving raises.
NewValueOf(metadata, key, raw) ==
    IF raw.k \in {"none", "raise"} THEN raw
    ELSE LET value == Transform(key, raw) IN
         IF value.k \in {"none", "raise"} THEN value
         ELSE Coerce(MetaGet(metadata, key), value, COLUMNS[key].datatype,
                     metadata.series_index)

NewValue(metadata, key) == NewValueOf(metadata, key, Resolve(key, metadata.audiobookshelf_id))

\* The columns staged into keys_values_to_update: the value differs from the
\* existing one.
StagedColumns(cfg, metadata) ==
    {key \in columns_to_sync(cfg) :
        /\ NewValue(metadata, key).k \notin {"none", "raise"}
        /\ NewValue(metadata, key) # MetaGet(metadata, key)}

\* The Audible ASIN of the item, staged under 'identifiers' when it differs
AsinStaged(cfg, metadata) ==
    /\ cfg.checkbox_enable_Audible_ASIN_sync
    /\ get_nested_value(ItemGet(metadata.audiobookshelf_id),
                        <<"media", "metadata", "asin">>) # metadata.audible

keys_values_to_update(cfg, metadata) ==
    LET keys == StagedColumns(cfg, metadata)
                \cup (IF AsinStaged(cfg, metadata) THEN {"identifiers"} ELSE {})
    IN [key \in keys |->
           IF key = "identifiers"
           THEN get_nested_value(ItemGet(metadata.audiobookshelf_id),
                                 <<"media", "metadata", "asin">>)
           ELSE NewValue(metadata, key)]

\* dict.get(key) of the update set
KvGet(kv, key) == IF key \in DOMAIN kv THEN kv[key] ELSE PyNone

ResolveRaises(cfg, metadata) ==
    \E key \in columns_to_sync(cfg) : NewValue(metadata, key).k = "raise"

\* Finished-skip: "raise" when a CONFIG[...] lookup has no value and no
\* default, else whether the book is marked finished.
BookFinished(cfg, metadata) ==
    IF ~cfg.checkbox_no_sync_if_finished THEN "no"
    ELSE IF ~cfg.status_keys THEN "raise"
    ELSE IF Truthy(MetaGet(metadata, ConfigGet(cfg, "column_audiobook_finished")))
            \/ metadata.status = PyStr(<<"finished">>)
         THEN "yes" ELSE "no"

\* The comparison of the timestamps without the equal case
NotMoreRecentStrict(current_lastread, new_lastread) ==
    current_lastread.n > new_lastread.n

\* current_lastread.timestamp() >= new_lastread.timestamp()
NotMoreRecent(current_lastread, new_lastread) == current_lastread.n >= new_lastread.n

\* The comparison of the percents with its sides exchanged
ProgressLowerReversed(current_progress, new_progress) ==
    current_progress.n < new_progress.n

\* current_progress > new_progress
ProgressLower(current_progress, new_progress) == current_progress.n > new_progress.n

\* CONFIG['column_audiobook_progress_float'] or CONFIG['column_audiobook_progress_int']
progress_key(cfg) ==
    IF ConfigGet(cfg, "column_audiobook_progress_float") # ""
    THEN ConfigGet(cfg, "column_audiobook_progress_float")
    ELSE ConfigGet(cfg, "column_audiobook_progress_int")

\* The guard with a fallback that skips a first progress value: an entity
\* that holds no percent and has one staged is skipped
GuardSkippingFirstProgress(cfg, metadata, kv) ==
    IF /\ cfg.checkbox_sync_only_if_more_recent
       /\ KvGet(kv, ConfigGet(cfg, "column_audiobook_lastread")).k = "none"
       /\ MetaGet(metadata, progress_key(cfg)).k = "none"
       /\ KvGet(kv, progress_key(cfg)).k # "none"
    THEN "No Progress found" ELSE "pass"

\* The monotonic-progress guard on a non-empty update set: the reason for
\* skipping, "pass" to commit, "raise" when a comparison raises.
Guard(cfg, metadata, kv) ==
    IF ~cfg.checkbox_sync_only_if_more_recent THEN "pass"
    ELSE
    LET lastread == ConfigGet(cfg, "column_audiobook_lastread")
        current_lastread == MetaGet(metadata, lastread)
        new_lastread == KvGet(kv, lastread)
        current_progress == MetaGet(metadata, progress_key(cfg))
        new_progress == KvGet(kv, progress_key(cfg))
    IN IF current_lastread.k # "none" /\ new_lastread.k # "none"
       THEN IF current_lastread.k # "datetime" \/ new_lastread.k # "datetime"
            THEN "raise"
            ELSE IF NotMoreRecent(current_lastread, new_lastread)
                 THEN "Data in calibre is more recent" ELSE "pass"
       ELSE IF new_lastread.k = "none"
       THEN IF current_progress.k # "none" /\ new_progress.k # "none"
            THEN IF current_progress.k \notin {"int", "float"}
                    \/ new_progress.k \notin {"int", "float"}
                 THEN "raise"
                 ELSE IF ProgressLower(ToFloat(current_progress), ToFloat(new_progress))
                      THEN "Progress is lower than in calibre" ELSE "pass"
            ELSE IF current_progress.k # "none" /\ new_progress.k = "none"
                 THEN "No Progress found" ELSE "pass"
       ELSE "pass"

\* The end of a pass that commits whatever the guard says
VerdictIgnoringGuard(guard, lookup_ok) ==
    IF guard = "raise" THEN guard ELSE IF lookup_ok THEN "updated" ELSE "failed"

\* The end of a pass whose update set is not empty: skip on the guard's reason,
\* else commit (lines 533-567). lookup_ok: db.lookup_by_uuid finds the book.
Verdict(guard, lookup_ok) ==
    IF guard # "pass" THEN guard ELSE IF lookup_ok THEN "updated" ELSE "failed"

\* A pass that staged the update set kv
Staged(cfg, metadata, kv, lookup_ok) ==
    IF DOMAIN kv = {} THEN "unchanged"
    ELSE Verdict(Guard(cfg, metadata, kv), lookup_ok)

\* What one pass of the worker's loop body does with an entity.
Outcome(cfg, metadata, lookup_ok) ==
    IF ItemGet(metadata.audiobookshelf_id).k = "none" THEN "not found"
    ELSE IF BookFinished(cfg, metadata) = "raise" THEN "raise"
    ELSE IF BookFinished(cfg, metadata) = "yes" THEN "finished"
    ELSE IF ResolveRaises(cfg, metadata) THEN "raise"
    ELSE Staged(cfg, metadata, keys_values_to_update(cfg, metadata), lookup_ok)

SkipReasons == {"Data in calibre is more recent", "Progress is lower than in calibre",
                "No Progress found"}

\* The counters with an empty update set counted as updated
CounterUnchangedUpdated(outcome) ==
    CASE outcome \in {"updated", "unchanged"} -> "num_success"
      [] outcome = "failed" -> "num_fail"
      [] outcome \in {"not found", "finished"} \cup SkipReasons -> "num_skip"
      [] OTHER -> "none"

\* The counter an outcome adds one to
Counter(outcome) ==
    CASE outcome = "updated" -> "num_success"
      [] outcome = "failed" -> "num_fail"
      [] outcome \in {"not found", "finished", "unchanged"} \cup SkipReasons -> "num_skip"
      [] OTHER -> "none"

\* The value the host's column stores for a written value: a str written to a
\* typed column is parsed back to the column's type, and a date is kept with
\* its time zone.
db_adapt(datatype, value) ==
    IF value.k = "datetime" THEN PyDateTz(value.n)
    ELSE IF value.k # "str" THEN value
    ELSE CASE datatype = "int" -> ToInt(value)
           [] datatype = "float" ->
                LET parts == Split(value.s, <<".">>) IN
                IF Len(parts) = 2 /\ AllDigits(parts[1]) /\ AllDigits(parts[2])
                THEN PyFloat(NatOf(parts[1]) * 100
                             + (IF Len(parts[2]) = 1 THEN 10 ELSE 1) * NatOf(parts[2]))
                ELSE ToFloat(value)
           [] datatype = "bool" -> PyBool(value.s = <<"True">>)
           [] datatype = "datetime" -> PyDateTz(NatOf(Tail(value.s)))
           [] OTHER -> IF value.s = <<>> THEN PyNone ELSE value

\* update_metadata after a successful lookup: the metadata with every key of
\* the update set written.
update_metadata(metadata, kv) ==
    [metadata EXCEPT
        !.cols = [key \in DOMAIN metadata.cols |->
                    IF key \notin DOMAIN kv THEN metadata.cols[key]
                    ELSE IF kv[key].k = "tuple" THEN PyStr(kv[key].s)
                    ELSE db_adapt(COLUMNS[key].datatype, kv[key])],
        !.series_index =
            IF "column_audiobook_series" \in DOMAIN kv
               /\ kv["column_audiobook_series"].k = "tuple"
            THEN PyFloat(kv["column_audiobook_series"].n)
            ELSE metadata.series_index,
        !.audible = IF "identifiers" \in DOMAIN kv THEN kv["identifiers"]
                    ELSE metadata.audible]

\* ------------------------------------------------------------------ state
VARIABLES
    CONFIG,     \* the plugin configuration (JSONConfig), read-only here
    Syncing,    \* AudiobookshelfAction.Syncing
    db,         \* the host metadata store: book id -> metadata
    workers,    \* the ABSSyncWorker threads started so far, in start order
    events,     \* metadata_changed notifications not yet delivered
    requests,   \* remote writes the writeback listener has issued
    dialogs,    \* titles of the message boxes and result dialogs shown
    syncs,      \* number of invocations of sync_from_audiobookshelf
    edits,      \* number of user edits made
    trace,      \* history: what each pass of a worker's loop did
    QLCache,    \* 'cache' of plugins/Audiobookshelf QL Cache.json
    quickLinkWorker, \* AudiobookshelfAction.quickLinkWorker
    cacheDialog,     \* the open "All Books Linked or Tried" dialog
    quicklinks, \* number of invocations of quick_link_books
    calls,      \* history: what each invocation of a menu operation did
    audibleSyncWorker, \* AudiobookshelfAction.audibleSyncWorker
    args,       \* the arguments of a function examined on its own
    result      \* its result, <<>> before it is applied

vars == <<CONFIG, Syncing, db, workers, events, requests, dialogs, syncs, edits,
          trace, QLCache, quickLinkWorker, cacheDialog, quicklinks, calls, audibleSyncWorker,
          args, result>>

\* The state of a function examined on its own, which the operations leave alone
funvars == <<args, result>>

\* No function is examined
NoCall == args = <<>> /\ result = <<>>

\* The state of quick link, which the sync leaves alone
quickvars == <<QLCache, quickLinkWorker, cacheDialog, quicklinks>>

\* The history of the menu operations, which their workers leave alone
menuvars == <<calls>>

\* The state of the rating sync, which the other operations leave alone
ratingvars == <<audibleSyncWorker>>

\* No worker, no dialog
NoWorker == [state |-> "none"]
NoDialog == [state |-> "none"]

Books == 1..NumBooks

\* The configurations explored
TitleWriteback ==
    Config({"column_audiobook_title"}, FALSE, FALSE, FALSE, FALSE, FALSE, TRUE)

TitleNarrator ==
    Config({"column_audiobook_title", "column_audiobook_narrator"},
           FALSE, FALSE, FALSE, FALSE, FALSE, FALSE)

NarratorSeriesAsin ==
    Config({"column_audiobook_narrator", "column_audiobook_series"},
           TRUE, FALSE, FALSE, FALSE, TRUE, FALSE)

TitleTimeRemaining ==
    Config({"column_audiobook_title", "column_audiobook_progress_time_remaining"},
           FALSE, FALSE, FALSE, FALSE, FALSE, FALSE)

TitleLastRead ==
    Config({"column_audiobook_title", "column_audiobook_lastread"},
           FALSE, FALSE, FALSE, TRUE, FALSE, FALSE)

TitleProgress ==
    Config({"column_audiobook_title", "column_audiobook_progress_float"},
           FALSE, FALSE, FALSE, TRUE, FALSE, FALSE)

ProgressInt ==
    Config({"column_audiobook_progress_int"}, FALSE, FALSE, FALSE, TRUE, FALSE, FALSE)

FinishedSkip ==
    Config({"column_audiobook_title", "column_audiobook_finished"},
           FALSE, TRUE, TRUE, FALSE, FALSE, FALSE)

FinishedSkipNoKeys ==
    Config({"column_audiobook_title", "column_audiobook_finished"},
           FALSE, TRUE, FALSE, FALSE, FALSE, FALSE)

ProgressIntAsin ==
    Config({"column_audiobook_progress_int"}, FALSE, FALSE, FALSE, TRUE, TRUE, FALSE)

Configs ==
    {TitleWriteback, TitleNarrator, NarratorSeriesAsin, TitleTimeRemaining,
     TitleLastRead, TitleProgress, ProgressInt, FinishedSkip, FinishedSkipNoKeys,
     ProgressIntAsin}

\* The values a bound column may hold before the first sync, by its type
OldValues(cfg, key) ==
    IF key \notin cfg.columns THEN {PyNone}
    ELSE CASE key = "column_audiobook_title" -> {PyNone, PyStr(<<"A">>)}
           [] key = "column_audiobook_narrator" ->
                IF cfg.narrator_is_multiple
                THEN {PyList(<<>>), PyList(<< <<"N">>, <<"M">> >>)}
                ELSE {PyNone, PyStr(<<"N", ",", " ", "M">>)}
           [] key = "column_audiobook_series" -> {PyNone, PyStr(<<"S">>), PyStr(<<"T">>)}
           [] key = "column_audiobook_lastread" ->
                {PyNone, PyDateTz(1), PyDateTz(2), PyDateTz(3)}
           [] key = "column_audiobook_progress_float" ->
                {PyNone, PyFloat(2000), PyFloat(3000), PyFloat(4000)}
           [] key = "column_audiobook_progress_int" ->
                {PyNone, PyInt(20), PyInt(30), PyInt(40)}
           [] key = "column_audiobook_finished" -> {PyNone, PyBool(TRUE)}
           [] key = "column_audiobook_started" ->
                {PyNone, PyBool(TRUE), PyBool(FALSE)}
           [] key = "column_audiobook_listen_time" ->
                {PyNone, PyStr(<<"0", ":", "0", "1">>)}
           [] key = "column_audiobook_collections" ->
                {PyList(<<>>), PyList(<< <<"C">> >>)}
           [] OTHER -> {PyNone}

\* The metadata a book may hold before the first sync. audiobookshelf_id is
\* '' for a book that is not linked; "gone" is an item the server no longer has.
BookStates(cfg) ==
    { m \in [audiobookshelf_id : {"", "i1", "i2", "gone"},
             title : {<<"A", "B">>},
             authors : {<<"X">>},
             audible : IF cfg.checkbox_enable_Audible_ASIN_sync
                       THEN {PyNone, PyStr(<<"B1">>)} ELSE {PyNone},
             status : IF cfg.status_keys THEN {PyNone, PyStr(<<"finished">>)}
                      ELSE {PyNone},
             series_index : {PyNone, PyFloat(100), PyFloat(200)},
             cols : [column_audiobook_title :
                         OldValues(cfg, "column_audiobook_title"),
                     column_audiobook_narrator :
                         OldValues(cfg, "column_audiobook_narrator"),
                     column_audiobook_series :
                         OldValues(cfg, "column_audiobook_series"),
                     column_audiobook_lastread :
                         OldValues(cfg, "column_audiobook_lastread"),
                     column_audiobook_progress_float :
                         OldValues(cfg, "column_audiobook_progress_float"),
                     column_audiobook_progress_int :
                         OldValues(cfg, "column_audiobook_progress_int"),
                     column_audiobook_progress_time_remaining :
                         OldValues(cfg, "column_audiobook_progress_time_remaining"),
                     column_audiobook_finished :
                         OldValues(cfg, "column_audiobook_finished"),
                     column_audiobook_started :
                         OldValues(cfg, "column_audiobook_started"),
                     column_audiobook_listen_time :
                         OldValues(cfg, "column_audiobook_listen_time"),
                     column_audiobook_collections :
                         OldValues(cfg, "column_audiobook_collections")]] :
        (m.cols.column_audiobook_series = PyNone) = (m.series_index = PyNone) }

\* The value of a column that was never written
EmptyValue(cfg, key) ==
    IF \/ key = "column_audiobook_narrator" /\ key \in cfg.columns /\ cfg.narrator_is_multiple
       \/ key = "column_audiobook_collections" /\ key \in cfg.columns
    THEN PyList(<<>>) ELSE PyNone

\* A book none of whose columns was ever written
Fresh(cfg, m) ==
    /\ m.audible = PyNone
    /\ m.status = PyNone
    /\ m.series_index = PyNone
    /\ \A key \in ColumnKeys : m.cols[key] = EmptyValue(cfg, key)

\* The library before the first sync: the first book in any state, the later
\* books never written, and a book that is not linked never written
Init ==
    /\ CONFIG \in Configs
    /\ Syncing = FALSE
    /\ db \in [Books -> BookStates(CONFIG)]
    /\ \A b \in Books : db[b].audiobookshelf_id = "" \/ b > 1 => Fresh(CONFIG, db[b])
    /\ \A b \in Books : b > 1 => db[b].audiobookshelf_id # "gone"
    /\ workers = <<>>
    /\ events = {}
    /\ requests = {}
    /\ dialogs = <<>>
    /\ syncs = 0
    /\ edits = 0
    /\ trace = {}
    /\ QLCache = <<>>
    /\ quickLinkWorker = NoWorker
    /\ cacheDialog = NoDialog
    /\ quicklinks = 0
    /\ calls = <<>>
    /\ audibleSyncWorker = NoWorker
    /\ NoCall

\* ---------------------------------------------------------------- actions
\* db.search('identifiers:"=audiobookshelf_id:"'), in id order
RECURSIVE LinkedFrom(_, _)
LinkedFrom(store, b) ==
    IF b > NumBooks THEN <<>>
    ELSE (IF store[b].audiobookshelf_id # "" THEN <<b>> ELSE <<>>)
         \o LinkedFrom(store, b + 1)

all_book_ids(store) == LinkedFrom(store, 1)

api_sources(cfg) == {COLUMNS[key].api_source : key \in columns_to_sync(cfg)}

\* get_abs_library_items. fetch is what the server answers: "failed" (no
\* response to the libraries request), "empty" (no item in any book library)
\* or "items". The result: the dialogs shown, whether a request was sent and
\* the items (<<>> for None).
get_abs_library_items(cfg, fetch, items) ==
    IF cfg.abs_key = ""
    THEN [dialogs |-> <<"Configuration Error">>, requested |-> FALSE, items |-> <<>>]
    ELSE IF fetch = "failed"
    THEN [dialogs |-> <<"API Error">>, requested |-> TRUE, items |-> <<>>]
    ELSE IF fetch = "empty"
    THEN [dialogs |-> <<>>, requested |-> TRUE, items |-> <<>>]
    ELSE [dialogs |-> <<>>, requested |-> TRUE, items |-> items]

\* The record of one invocation of a menu operation: the dialogs it showed, the
\* endpoints it requested, the request that failed, the exception it raised,
\* whether it got to its work, and the books selected for it
Call(op, shown, fetches, failed, raised, started) ==
    [op |-> op, dialogs |-> shown, fetches |-> fetches, failed |-> failed,
     raised |-> raised, started |-> started, books |-> {}]

\* The outcomes of fetching the libraries and their items, and the other
\* endpoints a sync fetches from
FetchOutcomes == {"failed", "empty", "items"}
Endpoints == {"me", "collections", "playlists", "sessions"}

\* get_abs_collections: the endpoints it requests, the dialog it shows, and
\* whether it returns None
get_abs_collections(failed) ==
    IF "collections" \in failed
    THEN [fetches |-> <<"collections">>, dialogs |-> <<"API Error">>, none |-> TRUE]
    ELSE IF "playlists" \in failed
    THEN [fetches |-> <<"collections", "playlists">>, dialogs |-> <<"API Error">>,
          none |-> TRUE]
    ELSE [fetches |-> <<"collections", "playlists">>, dialogs |-> <<>>, none |-> FALSE]

\* What the fetch of the libraries ended on
FailedLibraries(cfg, fetch) ==
    IF cfg.abs_key = "" THEN "" ELSE IF fetch = "failed" THEN "libraries" ELSE "items"

\* sync_from_audiobookshelf up to the start of its worker: api_request
\* returns None for the endpoints in failed
SyncStart(cfg, linked, fetch, failed) ==
    LET op == "sync_from_audiobookshelf"
        sources == api_sources(cfg)
        got == get_abs_library_items(cfg, fetch, abs_items)
        libs == IF got.requested THEN <<"libraries">> ELSE <<>>
        me == libs \o (IF "mediaProgress" \in sources THEN <<"me">> ELSE <<>>)
        colls == get_abs_collections(failed)
        coll == me \o (IF "collections" \in sources THEN colls.fetches ELSE <<>>)
        sess == coll \o (IF "sessions" \in sources THEN <<"sessions">> ELSE <<>>)
    IN IF linked = <<>>
       THEN Call(op, <<"No Linked Books">>, <<>>, "", "", FALSE)
       ELSE IF got.items = <<>>
       THEN Call(op, got.dialogs \o <<"API Error">>, libs, FailedLibraries(cfg, fetch),
                 "", FALSE)
       ELSE IF "mediaProgress" \in sources /\ "me" \in failed
       THEN Call(op, <<"API Error">>, me, "me", "", FALSE)
       ELSE IF "collections" \in sources /\ colls.none
       THEN Call(op, colls.dialogs, coll, coll[Len(coll)], "TypeError", FALSE)
       ELSE IF "sessions" \in sources /\ "sessions" \in failed
       THEN Call(op, <<>>, sess, "sessions", "AttributeError", FALSE)
       ELSE Call(op, <<>>, sess, "", "", TRUE)

sync_from_audiobookshelf(silent, fetch, failed) ==
    /\ syncs < MaxSyncs
    /\ syncs' = syncs + 1
    /\ Syncing' = TRUE
    /\ LET call == SyncStart(CONFIG, all_book_ids(db), fetch, failed)
       IN /\ calls' = Append(calls, call)
          /\ dialogs' = dialogs \o call.dialogs
          /\ workers' = IF call.started
                        THEN Append(workers,
                                [book_ids |-> all_book_ids(db), idx |-> 0,
                                 silent |-> silent,
                                 num_success |-> 0, num_fail |-> 0, num_skip |-> 0,
                                 results |-> <<>>, state |-> "running", read |-> <<>>])
                        ELSE workers
    /\ UNCHANGED <<CONFIG, db, events, requests, edits, trace>>
    /\ UNCHANGED <<quickvars, funvars, ratingvars>>

\* The row a pass appends to results: none for a book skipped as finished
ResultRow(book, outcome, kv) ==
    CASE outcome = "finished" -> <<>>
      [] outcome = "not found" ->
            << [book |-> book, error |-> "Audiobookshelf item not found",
                skipped |-> "", changes |-> {}] >>
      [] outcome \in SkipReasons ->
            << [book |-> book, error |-> "", skipped |-> outcome, changes |-> {}] >>
      [] outcome = "failed" ->
            << [book |-> book, error |-> "Book not found", skipped |-> "",
                changes |-> DOMAIN kv] >>
      [] OTHER ->
            << [book |-> book, error |-> "", skipped |-> "", changes |-> DOMAIN kv] >>

\* The worker's record when a failed commit ends the thread like an exception
AfterPassAbortOnFail(me, book, outcome, counter, kv) ==
    IF outcome \in {"raise", "failed"} THEN [me EXCEPT !.state = "died"]
    ELSE [me EXCEPT
            !.idx = me.idx + 1,
            !.state = IF me.idx + 1 = Len(me.book_ids) THEN "emitted" ELSE "running",
            !.num_success = @ + (IF counter = "num_success" THEN 1 ELSE 0),
            !.num_fail = @ + (IF counter = "num_fail" THEN 1 ELSE 0),
            !.num_skip = @ + (IF counter = "num_skip" THEN 1 ELSE 0),
            !.results = @ \o ResultRow(book, outcome, kv)]

\* The worker's record after a pass with the given outcome: an exception ends
\* the thread, anything else adds to one counter and appends the result row;
\* after the last pass the worker emits finished_signal.
AfterPass(me, book, outcome, counter, kv) ==
    IF outcome = "raise" THEN [me EXCEPT !.state = "died"]
    ELSE [me EXCEPT
            !.idx = me.idx + 1,
            !.state = IF me.idx + 1 = Len(me.book_ids) THEN "emitted" ELSE "running",
            !.num_success = @ + (IF counter = "num_success" THEN 1 ELSE 0),
            !.num_fail = @ + (IF counter = "num_fail" THEN 1 ELSE 0),
            !.num_skip = @ + (IF counter = "num_skip" THEN 1 ELSE 0),
            !.results = @ \o ResultRow(book, outcome, kv)]

\* The effect of a pass on the state. The store notifies only registered
\* listeners, and the listener is registered only when writeback is enabled.
Pass(w, book, metadata, outcome, kv, after, next) ==
    /\ workers' = [workers EXCEPT ![w] = next]
    /\ db' = [db EXCEPT ![book] = after]
    /\ events' = IF outcome = "updated" /\ CONFIG.checkbox_enable_writeback
                 THEN events \cup {[field |-> key, book |-> book, cause |-> "sync"] :
                                      key \in DOMAIN kv}
                 ELSE events
    /\ trace' = trace \cup
          {[w |-> w, book |-> book, metadata |-> metadata, kv |-> kv,
            outcome |-> outcome, after |-> after,
            d_success |-> next.num_success - workers[w].num_success,
            d_fail |-> next.num_fail - workers[w].num_fail,
            d_skip |-> next.num_skip - workers[w].num_skip,
            rows |-> Len(next.results) - Len(workers[w].results)]}

\* A pass over book with the given outcome and update set
Reconcile(w, book, outcome, kv) ==
    Pass(w, book, db[book], outcome, kv,
         IF outcome = "updated" THEN update_metadata(db[book], kv) ELSE db[book],
         AfterPass(workers[w], book, outcome, Counter(outcome), kv))

\* The update set a pass with the given outcome has staged
UpdateSet(outcome, metadata) ==
    IF outcome \in {"not found", "finished", "raise"} THEN <<>>
    ELSE keys_values_to_update(CONFIG, metadata)

\* One pass of the loop of ABSSyncWorker.run, on the worker thread
WorkerStep(w, lookup_ok) ==
    /\ workers[w].state = "running"
    /\ workers[w].read = <<>>
    /\ workers[w].idx < Len(workers[w].book_ids)
    /\ LET book == workers[w].book_ids[workers[w].idx + 1]
       IN Reconcile(w, book, Outcome(CONFIG, db[book], lookup_ok),
                    UpdateSet(Outcome(CONFIG, db[book], lookup_ok), db[book]))
    /\ UNCHANGED <<CONFIG, Syncing, requests, dialogs, syncs, edits>>
    /\ UNCHANGED <<quickvars, funvars, menuvars, ratingvars>>

\* The same pass when the interactive thread runs between its two accesses to
\* the store: WorkerRead is db.get_metadata(book_id) at the top of the pass,
\* WorkerWrite the rest of it, which stages and guards on the metadata read
\* and commits through update_metadata, which reads the book again.
WorkerRead(w) ==
    /\ workers[w].state = "running"
    /\ workers[w].read = <<>>
    /\ workers[w].idx < Len(workers[w].book_ids)
    /\ workers' = [workers EXCEPT
                      ![w].read = <<db[workers[w].book_ids[workers[w].idx + 1]]>>]
    /\ UNCHANGED <<CONFIG, Syncing, db, events, requests, dialogs, syncs, edits, trace>>
    /\ UNCHANGED <<quickvars, funvars, menuvars, ratingvars>>

\* update_metadata on the book as it is now, with the update set staged from
\* the metadata read: a staged 'identifiers' is the dictionary that was read
Commit(current, read, kv) ==
    [update_metadata(current, kv) EXCEPT
        !.audiobookshelf_id = IF "identifiers" \in DOMAIN kv
                              THEN read.audiobookshelf_id ELSE @]

WorkerWrite(w, lookup_ok) ==
    /\ workers[w].state = "running"
    /\ workers[w].read # <<>>
    /\ LET book == workers[w].book_ids[workers[w].idx + 1]
           read == workers[w].read[1]
           outcome == Outcome(CONFIG, read, lookup_ok)
           kv == UpdateSet(outcome, read)
       IN Pass(w, book, read, outcome, kv,
               IF outcome = "updated" THEN Commit(db[book], read, kv) ELSE db[book],
               [AfterPass(workers[w], book, outcome, Counter(outcome), kv)
                   EXCEPT !.read = <<>>])
    /\ UNCHANGED <<CONFIG, Syncing, requests, dialogs, syncs, edits>>
    /\ UNCHANGED <<quickvars, funvars, menuvars, ratingvars>>

\* len(row): the title, the changed headings, 'error' and 'skipped'
RowLen(row) ==
    1 + Cardinality(row.changes) + (IF row.error # "" THEN 1 ELSE 0)
      + (IF row.skipped # "" THEN 1 ELSE 0)

\* The sort key of on_finished orders a before b: rows with an error first,
\* then the longer row, then the title (books are titled in id order)
RowBefore(a, b) ==
    LET ea == IF a.error # "" THEN 0 ELSE 1
        eb == IF b.error # "" THEN 0 ELSE 1
    IN \/ ea < eb
       \/ ea = eb /\ RowLen(a) > RowLen(b)
       \/ ea = eb /\ RowLen(a) = RowLen(b) /\ a.book < b.book

RECURSIVE InsertRow(_, _)
InsertRow(row, rows) ==
    IF rows = <<>> THEN <<row>>
    ELSE IF RowBefore(row, Head(rows)) THEN <<row>> \o rows
    ELSE <<Head(rows)>> \o InsertRow(row, Tail(rows))

\* res['results'].sort(key=...)
RECURSIVE SortResults(_)
SortResults(rows) ==
    IF rows = <<>> THEN <<>>
    ELSE InsertRow(rows[Len(rows)], SortResults(SubSeq(rows, 1, Len(rows) - 1)))

\* on_finished, on the interactive thread
on_finished(w) ==
    /\ workers[w].state = "emitted"
    /\ Syncing' = FALSE
    /\ workers' = [workers EXCEPT
                     ![w].state = "reported",
                     ![w].results = IF workers[w].silent THEN @ ELSE SortResults(@)]
    /\ dialogs' = IF workers[w].silent THEN dialogs ELSE Append(dialogs, "Sync Completed")
    /\ UNCHANGED <<CONFIG, db, events, requests, syncs, edits, trace>>
    /\ UNCHANGED <<quickvars, funvars, menuvars, ratingvars>>

\* watched_columns of genesis: the bound columns whose label carries '*',
\* each with the last key of its data_location
watched_columns(cfg) ==
    [key \in {c \in cfg.columns : COLUMNS[c].starred} |->
        COLUMNS[key].data_location[Len(COLUMNS[key].data_location)]]

\* The remote write of event_listener for one book of a watched field
WritebackRequest(field, abs_id, cause) ==
    [method |-> "PATCH", item |-> abs_id, key |-> watched_columns(CONFIG)[field],
     cause |-> cause]

\* event_listener, on the interactive thread, for one notification. No listener
\* is registered when writeback is disabled.
event_listener(e) ==
    /\ e \in events
    /\ events' = events \ {e}
    /\ requests' =
         IF /\ CONFIG.checkbox_enable_writeback
            /\ ~Syncing
            /\ e.field \in DOMAIN watched_columns(CONFIG)
            /\ db[e.book].audiobookshelf_id # ""
         THEN requests \cup {WritebackRequest(e.field, db[e.book].audiobookshelf_id, e.cause)}
         ELSE requests
    /\ UNCHANGED <<CONFIG, Syncing, db, workers, dialogs, syncs, edits, trace>>
    /\ UNCHANGED <<quickvars, funvars, menuvars, ratingvars>>

\* The user edits a writeback column of a book in calibre (explored where the
\* listener is registered)
UserEdit(book, key, value) ==
    /\ edits < MaxEdits
    /\ CONFIG.checkbox_enable_writeback
    /\ key \in DOMAIN watched_columns(CONFIG)
    /\ value \in OldValues(CONFIG, key)
    /\ value # db[book].cols[key]
    /\ key # "column_audiobook_series"
    /\ edits' = edits + 1
    /\ db' = [db EXCEPT ![book].cols[key] = value]
    /\ events' = events \cup {[field |-> key, book |-> book, cause |-> "user"]}
    /\ UNCHANGED <<CONFIG, Syncing, workers, requests, dialogs, syncs, trace>>
    /\ UNCHANGED <<quickvars, funvars, menuvars, ratingvars>>

\* No worker is running and no finished signal is pending
Idle == \A w \in 1..Len(workers) : workers[w].state \in {"reported", "died"}

\* Invocations at any moment, the workers and the listener
Next ==
    \/ \E silent \in BOOLEAN, fetch \in {"failed", "items"}, failed \in SUBSET {"me"} :
          sync_from_audiobookshelf(silent, fetch, failed)
    \/ \E w \in 1..Len(workers), lookup_ok \in BOOLEAN : WorkerStep(w, lookup_ok)
    \/ \E w \in 1..Len(workers) : on_finished(w)
    \/ \E e \in events : event_listener(e)

\* Syncs invoked one after the other, with the user editing in between
NextRuns ==
    \/ \E silent \in BOOLEAN, fetch \in {"failed", "items"}, failed \in SUBSET {"me"} :
          Idle /\ sync_from_audiobookshelf(silent, fetch, failed)
    \/ \E w \in 1..Len(workers), lookup_ok \in BOOLEAN : WorkerStep(w, lookup_ok)
    \/ \E w \in 1..Len(workers) : on_finished(w)
    \/ \E e \in events : event_listener(e)
    \/ \E book \in Books, key \in ColumnKeys :
          \E value \in OldValues(CONFIG, key) : UserEdit(book, key, value)

\* The configurations under which concurrent invocations are explored
InitSync == Init /\ CONFIG \in {TitleWriteback, TitleTimeRemaining}

Spec == InitSync /\ [][Next]_vars

SpecRuns == Init /\ [][NextRuns]_vars

\* ----------------------------------------------------------------- claims
\* The workers that run or whose finished signal on_finished has not handled
InFlight == {w \in 1..Len(workers) : workers[w].state \in {"running", "emitted"}}

\* The item of the entity is on the server and nothing raises before the
\* update set is complete
Resolves(cfg, metadata) ==
    /\ ItemGet(metadata.audiobookshelf_id) # PyNone
    /\ BookFinished(cfg, metadata) = "no"
    /\ ~ResolveRaises(cfg, metadata)

\* C1: at any moment at most one sync worker is running or has yet to report
\* finished; an invocation that arrives meanwhile starts no second worker.
C1_AtMostOneWorker == Cardinality(InFlight) <= 1

\* C2: the writeback listener never issues a remote write for a notification
\* that a write of the sync itself caused.
C2_NoWritebackOfSyncWrites == \A r \in requests : r.cause # "sync"

\* C3: Syncing is true only while a sync is in flight: whenever no worker runs
\* and no finished signal is pending, Syncing is false.
C3_SyncingOnlyInFlight == Syncing => InFlight # {}

\* C4: reconciliation is idempotent: when a run has applied its update set to an
\* entity, a later run that finds the entity as the first run left it stages
\* nothing for it.
C4_SecondRunStagesNothing ==
    \A r1 \in trace, r2 \in trace :
        (/\ r1.outcome = "updated"
         /\ r2.w > r1.w
         /\ r2.book = r1.book
         /\ r2.metadata = r1.after)
        => DOMAIN r2.kv = {}

\* C5: an entity whose update set is empty after resolving every configured
\* column adds exactly one to num_skip, nothing to num_success or num_fail, and
\* is not written.
C5_EmptyUpdateSetIsSkipped ==
    \A r \in trace :
        (/\ Resolves(CONFIG, r.metadata)
         /\ DOMAIN keys_values_to_update(CONFIG, r.metadata) = {})
        => /\ r.d_skip = 1
           /\ r.d_success = 0
           /\ r.d_fail = 0
           /\ r.after = r.metadata

C5_Witness ==
    \E r \in trace :
        /\ Resolves(CONFIG, r.metadata)
        /\ DOMAIN keys_values_to_update(CONFIG, r.metadata) = {}
        /\ r.d_skip = 1
        /\ workers[r.w].num_skip >= 1

\* C6: a pass whose lookup at commit fails adds one to num_fail and appends a
\* row with the error; it does not end the worker, whose loop has moved on past
\* the entity, and which emits its finished signal after the last entity.
C6_LookupFailureIsCounted ==
    \A r \in trace :
        r.outcome = "failed"
        => /\ r.d_fail = 1
           /\ r.d_success = 0
           /\ r.d_skip = 0
           /\ r.rows = 1
           /\ \E i \in 1..Len(workers[r.w].results) :
                 /\ workers[r.w].results[i].book = r.book
                 /\ workers[r.w].results[i].error # ""
           /\ \E i \in 1..workers[r.w].idx : workers[r.w].book_ids[i] = r.book
           /\ (workers[r.w].state = "died"
                  => \E r2 \in trace : r2.w = r.w /\ r2.outcome = "raise")
           /\ (workers[r.w].idx = Len(workers[r.w].book_ids)
                  => workers[r.w].state \in {"emitted", "reported"})

C6_Witness ==
    \E r \in trace :
        /\ r.outcome = "failed"
        /\ \E r2 \in trace : r2.w = r.w /\ r2.book > r.book
        /\ workers[r.w].state = "emitted"
        /\ workers[r.w].num_fail >= 1

\* Some column's transform raises on the raw value resolved for the entity
TransformRaises(cfg, metadata) ==
    \E key \in columns_to_sync(cfg) :
        /\ Resolve(key, metadata.audiobookshelf_id).k \notin {"none", "raise"}
        /\ Transform(key, Resolve(key, metadata.audiobookshelf_id)) = Raised

\* C7: when a column's transform raises on the resolved raw value, the pass
\* goes on with the other columns and the run with the later entities: the
\* pass ends in one of the counted outcomes and the worker does not die.
C7_TransformRaiseSkipsField ==
    \A r \in trace :
        (/\ ItemGet(r.metadata.audiobookshelf_id) # PyNone
         /\ BookFinished(CONFIG, r.metadata) = "no"
         /\ TransformRaises(CONFIG, r.metadata))
        => /\ r.outcome # "raise"
           /\ workers[r.w].state # "died"

C9_SkippedUnlessProgressGreater ==
    \A r \in trace :
        (/\ CONFIG.checkbox_sync_only_if_more_recent
         /\ "column_audiobook_lastread" \notin CONFIG.columns
         /\ progress_key(CONFIG) # ""
         /\ Resolves(CONFIG, r.metadata)
         /\ MetaGet(r.metadata, progress_key(CONFIG)) # PyNone
         /\ NewValue(r.metadata, progress_key(CONFIG)) # PyNone
         /\ NewValue(r.metadata, progress_key(CONFIG)).n
               <= MetaGet(r.metadata, progress_key(CONFIG)).n)
        => /\ r.d_skip = 1
           /\ r.d_success = 0
           /\ r.d_fail = 0
           /\ r.after = r.metadata
           /\ (NewValue(r.metadata, progress_key(CONFIG)).n
                  < MetaGet(r.metadata, progress_key(CONFIG)).n
                 => r.outcome = "Progress is lower than in calibre")

C9_Witness ==
    \E r \in trace :
        /\ CONFIG.checkbox_sync_only_if_more_recent
        /\ "column_audiobook_lastread" \notin CONFIG.columns
        /\ MetaGet(r.metadata, progress_key(CONFIG)) \in {PyFloat(4000), PyInt(40)}
        /\ NewValue(r.metadata, progress_key(CONFIG)) \in {PyFloat(3000), PyInt(30)}
        /\ r.outcome = "Progress is lower than in calibre"
        /\ db[r.book] = r.metadata

\* The guard is enabled, the percent fallback is in effect (no new 'last read'
\* is staged), the entity holds no percent and a new percent is staged
FirstProgress(r) ==
    /\ "w" \in DOMAIN r
    /\ CONFIG.checkbox_sync_only_if_more_recent
    /\ progress_key(CONFIG) # ""
    /\ r.outcome \notin {"not found", "finished", "raise"}
    /\ KvGet(r.kv, ConfigGet(CONFIG, "column_audiobook_lastread")) = PyNone
    /\ MetaGet(r.metadata, progress_key(CONFIG)) = PyNone
    /\ progress_key(CONFIG) \in DOMAIN r.kv

\* C24 as stated: with the guard enabled and the percent fallback in effect, an
\* entity with no current progress value is skipped and not written even when
\* a new progress value is staged for it.
C24_FirstProgressIsSkipped ==
    \A r \in trace :
        FirstProgress(r)
        => /\ r.outcome \in SkipReasons
           /\ r.d_skip = 1
           /\ r.after = r.metadata

\* C24: with the guard enabled and the percent fallback in effect, an entity
\* with no current progress value and a new one staged is not skipped: its
\* update set goes to the commit, which writes the new percent when the book
\* is found and counts a failure when it is not.
C24_FirstProgressIsCommitted ==
    \A r \in trace :
        FirstProgress(r)
        => /\ r.outcome \in {"updated", "failed"}
           /\ r.d_skip = 0
           /\ r.outcome = "updated"
                 => /\ r.d_success = 1
                    /\ MetaGet(r.after, progress_key(CONFIG)) # PyNone

C24_Witness ==
    \E r \in trace :
        /\ FirstProgress(r)
        /\ r.outcome = "updated"
        /\ MetaGet(db[r.book], progress_key(CONFIG)) \in {PyFloat(3000), PyInt(30)}
        /\ workers[r.w].num_success >= 1

\* The pass ended in one of the gating policies: the finished-skip or a skip
\* of the monotonic-progress guard
Abandoned(r) ==
    /\ "w" \in DOMAIN r
    /\ r.outcome \notin {"not found", "raise"}
    /\ \/ BookFinished(CONFIG, r.metadata) = "yes"
       \/ /\ DOMAIN r.kv # {}
          /\ Guard(CONFIG, r.metadata, r.kv) \in SkipReasons

\* C27: a pass that a gating policy ends (finished-skip or monotonic-progress
\* guard) leaves every field of the book in the store as it was, the
\* identifiers included when a new ASIN was staged.
C27_AbandonedPassWritesNothing ==
    /\ [](\A r \in trace : Abandoned(r) => r.after = r.metadata)
    /\ [][\A w \in DOMAIN workers, b \in Books :
            (/\ workers[w].state = "running"
             /\ workers'[w].state = "running"
             /\ workers'[w].idx = workers[w].idx + 1
             /\ workers[w].book_ids[workers[w].idx + 1] = b
             /\ workers'[w].num_skip = workers[w].num_skip + 1)
            => db'[b] = db[b]]_vars

\* The guard ended a pass that had staged a new ASIN, and the book holds the
\* identifiers it held
C27_Witness ==
    \E r \in trace :
        /\ Abandoned(r)
        /\ r.outcome = "Progress is lower than in calibre"
        /\ "identifiers" \in DOMAIN r.kv
        /\ r.kv["identifiers"] # r.metadata.audible
        /\ db[r.book].audible = r.metadata.audible
        /\ db[r.book] = r.metadata

\* C10: with the finished-skip policy enabled, an entity marked finished in the
\* store is not written and adds one to num_skip.
C10_FinishedIsSkipped ==
    \A r \in trace :
        (/\ CONFIG.checkbox_no_sync_if_finished
         /\ ItemGet(r.metadata.audiobookshelf_id) # PyNone
         /\ Truthy(MetaGet(r.metadata, ConfigGet(CONFIG, "column_audiobook_finished"))))
        => /\ r.after = r.metadata
           /\ r.d_skip = 1

\* ============================================================== quick link
\* quick_link_books, its worker (QuickLinkWorker.run), its on_finished and the
\* dialog of the books that failed before.
MaxQuickLinks == 2

\* str.lower() of a character
Lower(c) ==
    CASE c = "A" -> "a" [] c = "B" -> "b" [] c = "C" -> "c" [] c = "D" -> "d"
      [] c = "E" -> "e" [] c = "F" -> "f" [] c = "X" -> "x" [] c = "Y" -> "y"
      [] OTHER -> c

\* ord(c) of a lower-case character, as its place in the alphabet
Ord(c) ==
    CASE c = "a" -> 1 [] c = "b" -> 2 [] c = "c" -> 3 [] c = "d" -> 4
      [] c = "e" -> 5 [] c = "f" -> 6 [] c = "x" -> 24 [] c = "y" -> 25
      [] OTHER -> 0

\* a.lower() < b.lower() of two strings
RECURSIVE LowerLess(_, _)
LowerLess(a, b) ==
    IF b = <<>> THEN FALSE
    ELSE IF a = <<>> THEN TRUE
    ELSE IF Ord(Lower(Head(a))) # Ord(Lower(Head(b)))
         THEN Ord(Lower(Head(a))) < Ord(Lower(Head(b)))
    ELSE LowerLess(Tail(a), Tail(b))

\* The length of the block a[i..] = b[j..] within a[..ahi], b[..bhi]
RECURSIVE BlockLen(_, _, _, _, _, _)
BlockLen(a, b, i, j, ahi, bhi) ==
    IF i > ahi \/ j > bhi THEN 0
    ELSE IF a[i] # b[j] THEN 0
    ELSE 1 + BlockLen(a, b, i + 1, j + 1, ahi, bhi)

\* difflib.SequenceMatcher.find_longest_match (no junk): the longest block
\* common to a[alo..ahi] and b[blo..bhi], the one starting earliest in a and,
\* of those, earliest in b, as <<i, j, k>>
find_longest_match(a, b, alo, ahi, blo, bhi) ==
    LET starts == (alo..ahi) \X (blo..bhi)
        best == CHOOSE k \in 0..(ahi - alo + 1) :
                   /\ \A s \in starts : BlockLen(a, b, s[1], s[2], ahi, bhi) <= k
                   /\ k = 0 \/ \E s \in starts : BlockLen(a, b, s[1], s[2], ahi, bhi) = k
        longest == {s \in starts : BlockLen(a, b, s[1], s[2], ahi, bhi) = best}
        first == CHOOSE s \in longest :
                   \A u \in longest : s[1] < u[1] \/ (s[1] = u[1] /\ s[2] <= u[2])
    IN IF best = 0 THEN <<alo, blo, 0>> ELSE <<first[1], first[2], best>>

\* The sum of the sizes of get_matching_blocks(): the longest block, then the
\* same to its left and to its right
RECURSIVE Matches(_, _, _, _, _, _)
Matches(a, b, alo, ahi, blo, bhi) ==
    IF alo > ahi \/ blo > bhi THEN 0
    ELSE LET m == find_longest_match(a, b, alo, ahi, blo, bhi)
         IN IF m[3] = 0 THEN 0
            ELSE m[3] + Matches(a, b, alo, m[1] - 1, blo, m[2] - 1)
                      + Matches(a, b, m[1] + m[3], ahi, m[2] + m[3], bhi)

\* The comparison with a candidate of ratio exactly .5 admitted
RatioAtLeastHalf(a, b) ==
    IF Len(a) + Len(b) = 0 THEN TRUE
    ELSE 4 * Matches(a, b, 1, Len(a), 1, Len(b)) >= Len(a) + Len(b)

\* SequenceMatcher(None, a, b).ratio() > .5, ratio being 2.0 * matches / length
\* and 1.0 when both strings are empty
RatioAboveHalf(a, b) ==
    IF Len(a) + Len(b) = 0 THEN TRUE
    ELSE 4 * Matches(a, b, 1, Len(a), 1, Len(b)) > Len(a) + Len(b)

\* The configuration of quick link: the API key and the cache checkbox
QuickConfig(abs_key, cache) ==
    [Config({}, FALSE, FALSE, FALSE, FALSE, FALSE, FALSE) EXCEPT !.abs_key = abs_key]
        @@ ("checkbox_cache_QuickLink_history" :> cache)

\* The server library quick link is explored with: i2 and i3 carry the same
\* ASIN, i4 carries none
abs_items_quick_link ==
    << [id |-> "i1", item |-> LibraryItem("i1", <<"A", "B">>, <<>>, <<>>, PyStr(<<"B1">>))],
       [id |-> "i2", item |-> LibraryItem("i2", <<"A", "B", "C">>, <<>>, <<>>, PyStr(<<"B2">>))],
       [id |-> "i3", item |-> LibraryItem("i3", <<"B">>, <<>>, <<>>, PyStr(<<"B2">>))],
       [id |-> "i4", item |-> LibraryItem("i4", <<"X", "Y">>, <<>>, <<>>, PyNone)] >>

\* abs_asin_index: ASIN -> the items carrying it, in library order; an item
\* without ASIN is not indexed
RECURSIVE AsinIndex(_)
AsinIndex(items) ==
    IF items = <<>> THEN <<>>
    ELSE LET last == items[Len(items)].item
             rest == AsinIndex(SubSeq(items, 1, Len(items) - 1))
             abs_asin == get_nested_value(last, <<"media", "metadata", "asin">>)
             entry == [abs_id |-> items[Len(items)].id,
                       abs_title |-> get_nested_value(last, <<"media", "metadata", "title">>).s]
         IN IF ~Truthy(abs_asin) THEN rest
            ELSE IF abs_asin.s \in DOMAIN rest
                 THEN [rest EXCEPT ![abs_asin.s] = Append(@, entry)]
            ELSE rest @@ (abs_asin.s :> <<entry>>)

\* A product of the catalog's response and the responses explored; the
\* request itself may raise (no connection, HTTP error, timeout)
Product(asin, title) == [asin |-> asin, title |-> title]

Response(products) ==
    [raises |-> FALSE, products |-> products, total_results |-> Len(products)]

Responses ==
    { [raises |-> TRUE, products |-> <<>>, total_results |-> 0],
      Response(<<>>),
      Response(<<Product(<<"B1">>, <<"A", "B">>)>>),
      Response(<<Product(<<"B1">>, <<"A", "B", "C", "D", "E", "F">>)>>),
      Response(<<Product(<<"B9">>, <<"A", "B">>)>>),
      Response(<<Product(<<"B2">>, <<"A", "B", "C">>)>>),
      Response(<<Product(<<"B1">>, <<"A", "B">>), Product(<<"B2">>, <<"A", "B", "C">>)>>),
      Response(<<Product(<<"B1">>, <<"A", "B">>), Product(<<"B1">>, <<"B">>)>>) }

\* asin_overlap: the ASINs of the products whose title is similar enough to
\* the book's, that the server library holds
asin_overlap(title, response, abs_asin_index) ==
    {response.products[i].asin : 
        i \in {j \in 1..Len(response.products) :
                  RatioAboveHalf(title, response.products[j].title)}}
    \cap DOMAIN abs_asin_index

\* The row QuickLinkWorker.run appends for a book. kind names the branch:
\* "linked" (the row with 'Link?'), "same ASIN", "possible matches", "none
\* matched", "exception", "missing".
QuickRow(book, metadata, kind, abs_id, abs_title) ==
    [book |-> book, title |-> metadata.title, kind |-> kind,
     link |-> kind = "linked", matched_title |-> abs_title, hidden_abs_id |-> abs_id,
     hidden_metadata |-> IF kind = "linked" THEN metadata ELSE PyNone,
     hidden_id_for_cache |-> kind = "none matched"]

\* The pass that links the first server item carrying the single ASIN
QuickLinkFirstCarrier(book, metadata, response, abs_asin_index) ==
    IF metadata.title # <<>> /\ metadata.authors # <<>> /\ metadata.authors[1] # "Unknown"
    THEN IF response.raises THEN QuickRow(book, metadata, "exception", "", <<>>)
         ELSE LET overlap == asin_overlap(metadata.title, response, abs_asin_index)
              IN IF overlap # {}
                 THEN IF Cardinality(overlap) = 1
                      THEN LET abs_id_list == abs_asin_index[CHOOSE a \in overlap : TRUE]
                           IN QuickRow(book, metadata, "linked",
                                       abs_id_list[1].abs_id, abs_id_list[1].abs_title)
                      ELSE QuickRow(book, metadata, "possible matches", "", <<>>)
                 ELSE QuickRow(book, metadata, "none matched", "", <<>>)
    ELSE QuickRow(book, metadata, "missing", "", <<>>)

\* One pass of the loop of QuickLinkWorker.run over a book, given the
\* catalog's response: the row appended
QuickLink(book, metadata, response, abs_asin_index) ==
    IF metadata.title # <<>> /\ metadata.authors # <<>> /\ metadata.authors[1] # "Unknown"
    THEN IF response.raises THEN QuickRow(book, metadata, "exception", "", <<>>)
         ELSE LET overlap == asin_overlap(metadata.title, response, abs_asin_index)
              IN IF overlap # {}
                 THEN IF Cardinality(overlap) = 1
                      THEN LET abs_id_list == abs_asin_index[CHOOSE a \in overlap : TRUE]
                           IN IF Len(abs_id_list) = 1
                              THEN QuickRow(book, metadata, "linked",
                                            abs_id_list[1].abs_id, abs_id_list[1].abs_title)
                              ELSE QuickRow(book, metadata, "same ASIN", "", <<>>)
                      ELSE QuickRow(book, metadata, "possible matches", "", <<>>)
                 ELSE QuickRow(book, metadata, "none matched", "", <<>>)
    ELSE QuickRow(book, metadata, "missing", "", <<>>)

\* Whether the pass calls audible_search
Queries(metadata) ==
    metadata.title # <<>> /\ metadata.authors # <<>> /\ metadata.authors[1] # "Unknown"

\* db.search('not identifiers:"=audiobookshelf_id:"'), in id order
RECURSIVE UnlinkedFrom(_, _)
UnlinkedFrom(store, b) ==
    IF b > NumBooks THEN <<>>
    ELSE (IF store[b].audiobookshelf_id = "" THEN <<b>> ELSE <<>>)
         \o UnlinkedFrom(store, b + 1)

\* [x for x in seq if x not in cacheList]
RECURSIVE NotIn(_, _)
NotIn(seq, cacheList) ==
    IF seq = <<>> THEN <<>>
    ELSE (IF \E i \in 1..Len(cacheList) : cacheList[i] = Head(seq) THEN <<>>
          ELSE <<Head(seq)>>) \o NotIn(Tail(seq), cacheList)

\* list.sort(key=...) of book ids by lower-case title: a stable sort
RECURSIVE InsertByTitle(_, _, _)
InsertByTitle(book, books, store) ==
    IF books = <<>> THEN <<book>>
    ELSE IF LowerLess(store[book].title, store[Head(books)].title)
         THEN <<book>> \o books
    ELSE <<Head(books)>> \o InsertByTitle(book, Tail(books), store)

RECURSIVE SortByTitle(_, _)
SortByTitle(books, store) ==
    IF books = <<>> THEN <<>>
    ELSE InsertByTitle(Head(books), SortByTitle(Tail(books), store), store)

\* quick_link_books up to the start of the worker. fetch: what the server
\* answers to get_abs_library_items.
quick_link_books(fetch) ==
    /\ quicklinks < MaxQuickLinks
    /\ quicklinks' = quicklinks + 1
    /\ LET op == "quick_link_books"
           unlinked == UnlinkedFrom(db, 1)
           cached == CONFIG.checkbox_cache_QuickLink_history
           cacheList == IF cached THEN QLCache ELSE <<>>
           book_ids == NotIn(unlinked, cacheList)
           got == get_abs_library_items(CONFIG, fetch, abs_items_quick_link)
           libs == IF got.requested THEN <<"libraries">> ELSE <<>>
       IN IF unlinked = <<>>
          THEN /\ dialogs' = Append(dialogs, "All Books Linked")
               /\ calls' = Append(calls, Call(op, <<"All Books Linked">>, <<>>, "", "",
                                              FALSE))
               /\ UNCHANGED <<quickLinkWorker, cacheDialog>>
          ELSE IF book_ids = <<>>
          THEN /\ dialogs' = Append(dialogs, "All Books Linked or Tried")
               /\ calls' = Append(calls, Call(op, <<"All Books Linked or Tried">>, <<>>,
                                              "", "", FALSE))
               /\ cacheDialog' = [state |-> "open",
                                  cacheList |-> SortByTitle(cacheList, db),
                                  table |-> 0..(Len(cacheList) - 1),
                                  rows |-> SortByTitle(cacheList, db),
                                  presses |-> 0,
                                  raised |-> FALSE]
               /\ UNCHANGED quickLinkWorker
          ELSE IF got.items = <<>>
          THEN /\ dialogs' = dialogs \o got.dialogs \o <<"API Error">>
               /\ calls' = Append(calls, Call(op, got.dialogs \o <<"API Error">>, libs,
                                              FailedLibraries(CONFIG, fetch), "", FALSE))
               /\ UNCHANGED <<quickLinkWorker, cacheDialog>>
          ELSE /\ quickLinkWorker' =
                    [state |-> "running", run |-> quicklinks + 1,
                     book_ids |-> book_ids, idx |-> 0,
                     num_matched |-> 0, num_failed |-> 0, results |-> <<>>,
                     abs_asin_index |-> AsinIndex(got.items),
                     cacheList |-> cacheList]
               /\ calls' = Append(calls, Call(op, <<>>, libs, "", "", TRUE))
               /\ UNCHANGED <<dialogs, cacheDialog>>
    /\ UNCHANGED <<CONFIG, Syncing, db, workers, events, requests, syncs, edits, trace,
                   QLCache>>
    /\ UNCHANGED <<funvars, ratingvars>>

\* One pass of the loop of QuickLinkWorker.run, on the worker thread, and the
\* finished signal after the last
QuickLinkStep(response) ==
    /\ quickLinkWorker.state = "running"
    /\ LET me == quickLinkWorker
           book == me.book_ids[me.idx + 1]
           row == QuickLink(book, db[book], response, me.abs_asin_index)
       IN \* a pass that makes no query has no response
          /\ Queries(db[book]) \/ response = Response(<<>>)
          /\ quickLinkWorker' =
               [me EXCEPT
                  !.idx = @ + 1,
                  !.state = IF me.idx + 1 = Len(me.book_ids) THEN "emitted" ELSE "running",
                  !.num_matched = @ + (IF row.kind = "linked" THEN 1 ELSE 0),
                  !.num_failed = @ + (IF row.kind = "linked" THEN 0 ELSE 1),
                  !.results = Append(@, row)]
          /\ trace' = trace \cup
               {[run |-> me.run, book |-> book, metadata |-> db[book],
                 queried |-> Queries(db[book]), response |-> response, row |-> row,
                 cached |-> \E i \in 1..Len(QLCache) : QLCache[i] = book]}
    /\ UNCHANGED <<CONFIG, Syncing, db, workers, events, requests, dialogs, syncs, edits,
                   QLCache, cacheDialog, quicklinks>>
    /\ UNCHANGED <<funvars, menuvars, ratingvars>>

\* The sort key of on_finished orders a before b: linkable rows first, then
\* by lower-case title
QuickBefore(a, b) ==
    \/ a.link /\ ~b.link
    \/ a.link = b.link /\ LowerLess(a.title, b.title)

RECURSIVE InsertQuick(_, _)
InsertQuick(row, rows) ==
    IF rows = <<>> THEN <<row>>
    ELSE IF QuickBefore(row, Head(rows)) THEN <<row>> \o rows
    ELSE <<Head(rows)>> \o InsertQuick(row, Tail(rows))

RECURSIVE SortQuick(_)
SortQuick(rows) ==
    IF rows = <<>> THEN <<>>
    ELSE InsertQuick(Head(rows), SortQuick(Tail(rows)))

\* The ids of every row that is not linkable
IdsOfFailed(results) ==
    [i \in 1..Len(SelectSeq(results, LAMBDA row : ~row.link)) |->
        SelectSeq(results, LAMBDA row : ~row.link)[i].book]

\* [book['hidden_id_for_cache'] for book in results if 'hidden_id_for_cache' in book]
RECURSIVE IdsForCache(_)
IdsForCache(results) ==
    IF results = <<>> THEN <<>>
    ELSE (IF Head(results).hidden_id_for_cache THEN <<Head(results).book>> ELSE <<>>)
         \o IdsForCache(Tail(results))

\* db.set_metadata(book_id, mi, set_title=False, set_authors=False) without
\* force_changes: the fields of mi that are not None are written over the
\* book's, and no identifier is deleted
SetMetadata(current, mi) ==
    [f \in DOMAIN current |->
        CASE f \in {"title", "authors"} -> current[f]
          [] f = "audiobookshelf_id" -> IF mi[f] # "" THEN mi[f] ELSE current[f]
          [] f = "cols" ->
               [key \in DOMAIN current.cols |->
                   IF mi.cols[key] # PyNone THEN mi.cols[key] ELSE current.cols[key]]
          [] f = "series_index" ->
               IF mi.cols["column_audiobook_series"] # PyNone
               THEN mi.series_index ELSE current.series_index
          [] OTHER -> IF mi[f] # PyNone THEN mi[f] ELSE current[f]]

\* For each checked row, the identifier is added to the metadata the worker
\* read, which is written to the book
LinkChecked(store, results, checked_rows) ==
    [b \in DOMAIN store |->
        IF \E idx \in checked_rows : results[idx].book = b
        THEN LET row == results[CHOOSE idx \in checked_rows : results[idx].book = b]
             IN SetMetadata(store[b], [row.hidden_metadata EXCEPT
                                          !.audiobookshelf_id = row.hidden_abs_id])
        ELSE store[b]]

\* The orders of the rows of the results table, as the idx of the row at each
\* place: as the table was filled, or after the user sorted it by the title or
\* the matched title, ascending or descending; rows that compare equal keep
\* their order
SortedBy(results, order, column, descending) ==
    \A p \in 1..(Len(results) - 1) :
        LET a == results[order[p]][column]
            b == results[order[p + 1]][column]
        IN IF ~LowerLess(a, b) /\ ~LowerLess(b, a) THEN order[p] < order[p + 1]
           ELSE IF descending THEN LowerLess(b, a) ELSE LowerLess(a, b)

TableOrders(results) ==
    {[p \in 1..Len(results) |-> p]}
    \cup {order \in Permutations(1..Len(results)) :
             \E column \in {"title", "matched_title"}, descending \in BOOLEAN :
                SortedBy(results, order, column, descending)}

\* link_callback of the dialog: the places of the table whose box is checked,
\* checked being the idx of the rows the user left checked
CheckedRows(checked, order) == {p \in DOMAIN order : order[p] \in checked}

\* The loop over dialog.checked_rows stops at the first row that has no
\* 'hidden_metadata' (KeyError): the rows it wrote
RowsWritten(results, checked_rows) ==
    {p \in checked_rows : \A q \in checked_rows : ~results[q].link => p < q}

\* on_finished of quick link, on the interactive thread: the cache, the
\* results dialog, and the links of the rows the user left checked. confirmed:
\* the dialog was left by 'Link Selected'; checked, order: the rows left
\* checked and the order of the table at that moment
quick_on_finished(confirmed, checked, order) ==
    /\ quickLinkWorker.state = "emitted"
    /\ LET results == SortQuick(quickLinkWorker.results)
           checked_rows == IF confirmed THEN CheckedRows(checked, order) ELSE {}
       IN /\ checked \subseteq {idx \in 1..Len(results) : results[idx].link}
          /\ order \in TableOrders(results)
          /\ quickLinkWorker' =
                [quickLinkWorker EXCEPT !.state = "reported", !.results = results]
                @@ [confirmed |-> confirmed, checked |-> checked, order |-> order,
                    raised |-> \E p \in checked_rows : ~results[p].link]
          /\ db' = LinkChecked(db, results, RowsWritten(results, checked_rows))
    /\ QLCache' = IF CONFIG.checkbox_cache_QuickLink_history
                  THEN quickLinkWorker.cacheList \o IdsForCache(quickLinkWorker.results)
                  ELSE QLCache
    /\ dialogs' = Append(dialogs, "Quick Link Results")
    /\ UNCHANGED <<CONFIG, Syncing, workers, events, requests, syncs, edits, trace,
                   cacheDialog, quicklinks>>
    /\ UNCHANGED <<funvars, menuvars, ratingvars>>

\* cacheList.pop(item) for each index, highest first: the list left and
\* whether a pop raised IndexError
RECURSIVE PopAll(_, _)
PopAll(cacheList, indexes) ==
    IF indexes = {} THEN [list |-> cacheList, raised |-> FALSE]
    ELSE LET item == CHOOSE i \in indexes : \A j \in indexes : j <= i
         IN IF item >= Len(cacheList) THEN [list |-> cacheList, raised |-> TRUE]
            ELSE PopAll(SubSeq(cacheList, 1, item) \o SubSeq(cacheList, item + 2, Len(cacheList)),
                        indexes \ {item})

\* custom_key_press of the dialog, Delete or Backspace with the rows of the
\* given idx selected. rows keeps the book of each idx as the table was
\* filled, presses the number of key presses, raised whether one of them raised
custom_key_press(selected) ==
    /\ cacheDialog.state = "open"
    /\ selected # {}
    /\ selected \subseteq cacheDialog.table
    /\ LET popped == PopAll(cacheDialog.cacheList, selected)
       IN /\ cacheDialog' = [cacheDialog EXCEPT !.table = @ \ selected,
                                                !.cacheList = popped.list,
                                                !.presses = @ + 1,
                                                !.raised = @ \/ popped.raised]
          /\ QLCache' = IF popped.raised THEN QLCache ELSE popped.list
    /\ UNCHANGED <<CONFIG, Syncing, db, workers, events, requests, dialogs, syncs, edits,
                   trace, quickLinkWorker, quicklinks>>
    /\ UNCHANGED <<funvars, menuvars, ratingvars>>

\* The user closes the dialog
CloseCacheDialog ==
    /\ cacheDialog.state = "open"
    /\ cacheDialog' = NoDialog
    /\ UNCHANGED <<CONFIG, Syncing, db, workers, events, requests, dialogs, syncs, edits,
                   trace, QLCache, quickLinkWorker, quicklinks>>
    /\ UNCHANGED <<funvars, menuvars, ratingvars>>

\* No quick link is in flight and no dialog is open
QuickIdle ==
    /\ quickLinkWorker.state \notin {"running", "emitted"}
    /\ cacheDialog.state = "none"

\* The books quick link is explored with: a title that may be empty, authors
\* that may be missing or 'Unknown', linked or not, no column written
QuickBooks(cfg) ==
    { [m EXCEPT !.audiobookshelf_id = id, !.title = title, !.authors = authors] :
        m \in {n \in BookStates(cfg) : Fresh(cfg, n) /\ n.audiobookshelf_id = ""},
        id \in {"", "i1"},
        title \in {<<>>, <<"A", "B">>, <<"B">>},
        authors \in {<<>>, <<"Unknown">>, <<"X">>} }

InitQuickLink ==
    /\ CONFIG \in {QuickConfig("k", cache) : cache \in BOOLEAN}
    /\ Syncing = FALSE
    /\ db \in [Books -> QuickBooks(CONFIG)]
    /\ \A b \in Books : db[b].audiobookshelf_id # "" =>
            db[b].title # <<>> /\ db[b].authors = <<"X">>
    /\ workers = <<>>
    /\ events = {}
    /\ requests = {}
    /\ dialogs = <<>>
    /\ syncs = 0
    /\ edits = 0
    /\ trace = {}
    /\ QLCache = <<>>
    /\ quickLinkWorker = NoWorker
    /\ cacheDialog = NoDialog
    /\ quicklinks = 0
    /\ calls = <<>>
    /\ audibleSyncWorker = NoWorker
    /\ NoCall

\* Quick links invoked one after the other
NextQuickLink ==
    \/ \E fetch \in {"failed", "empty", "items"} : QuickIdle /\ quick_link_books(fetch)
    \/ \E response \in Responses : QuickLinkStep(response)
    \/ \E confirmed \in BOOLEAN, checked \in SUBSET (1..NumBooks) :
          /\ quickLinkWorker.state = "emitted"
          /\ \E order \in Permutations(1..Len(quickLinkWorker.results)) :
                quick_on_finished(confirmed, checked, order)
    \/ \E selected \in SUBSET (0..(NumBooks - 1)) : custom_key_press(selected)
    \/ CloseCacheDialog

SpecQuickLink == InitQuickLink /\ [][NextQuickLink]_vars

\* ------------------------------------------------------ claims: quick link
\* The books of the rows still in the table of the cache dialog
RowsLeft == {cacheDialog.rows[idx + 1] : idx \in cacheDialog.table}

\* C29: a quick link writes an identifier only onto a book whose row is a
\* match the user left checked when pressing 'Link Selected', and writes the
\* identifier matched for that book, however the user unchecked and sorted the
\* rows before; no book is linked when the dialog is left without confirming;
\* and the links are written without raising.
C29_OnlyCheckedMatchesAreLinked ==
    /\ [][quickLinkWorker.state = "emitted" /\ quickLinkWorker'.state = "reported"
            => \A b \in Books :
                  db'[b] # db[b]
                  => /\ quickLinkWorker'.confirmed
                     /\ \E idx \in quickLinkWorker'.checked :
                           LET row == quickLinkWorker'.results[idx]
                           IN /\ row.book = b
                              /\ row.link
                              /\ db'[b].audiobookshelf_id = row.hidden_abs_id]_vars
    /\ [](quickLinkWorker.state = "reported" => ~quickLinkWorker.raised)

\* C26: in the dialog of the books that failed before, after any sequence of
\* Delete or Backspace presses the persisted cache holds exactly the books
\* whose rows are still in the table, and no press raised.
C26_CacheIsOriginalMinusRemoved ==
    cacheDialog.state = "open"
        => /\ {QLCache[i] : i \in 1..Len(QLCache)} = RowsLeft
           /\ ~cacheDialog.raised

\* The outcome a result row of quick link stands for
QuickOutcome(row) ==
    CASE row.kind = "linked" -> "linked"
      [] row.kind \in {"same ASIN", "possible matches"} -> "ambiguous"
      [] row.kind = "none matched" -> "no-match"
      [] row.kind = "missing" -> "missing-fields"
      [] OTHER -> "exception"

\* The ASINs of the server library and the items carrying one
ServerAsins ==
    {get_nested_value(abs_items_quick_link[i].item, <<"media", "metadata", "asin">>).s :
        i \in {j \in 1..Len(abs_items_quick_link) :
                 Truthy(get_nested_value(abs_items_quick_link[j].item,
                                         <<"media", "metadata", "asin">>))}}

Carriers(asin) ==
    {i \in 1..Len(abs_items_quick_link) :
        get_nested_value(abs_items_quick_link[i].item, <<"media", "metadata", "asin">>)
            = PyStr(asin)}

\* I of a pass: the identifiers of the candidates whose title similarity is
\* above .5, that the server library holds
Intersecting(t) ==
    {t.response.products[i].asin :
        i \in {j \in 1..Len(t.response.products) :
                 RatioAboveHalf(t.metadata.title, t.response.products[j].title)}}
    \cap ServerAsins

MissingFields(t) ==
    \/ t.metadata.title = <<>>
    \/ t.metadata.authors = <<>>
    \/ t.metadata.authors[1] = "Unknown"

\* The outcome rule for a pass whose catalog query returned
OutcomeRule(t) ==
    LET I == Intersecting(t)
        single == Cardinality(I) = 1 /\ \A a \in I : Cardinality(Carriers(a)) = 1
    IN /\ QuickOutcome(t.row) = "linked" <=> single
       /\ QuickOutcome(t.row) = "ambiguous" <=> I # {} /\ ~single
       /\ QuickOutcome(t.row) = "no-match" <=> I = {}
       /\ QuickOutcome(t.row) = "linked" =>
             \A a \in I : \A i \in Carriers(a) :
                 t.row.hidden_abs_id = abs_items_quick_link[i].id

\* C11 as stated: the outcome of every pass of quick link is one of linked,
\* ambiguous, no-match and missing-fields; it is missing-fields exactly when
\* the title is empty or the first author is absent or 'Unknown', and then no
\* catalog query is made; otherwise it follows the outcome rule; an ambiguous
\* entity is not proposed for linking.
C11_OutcomeIsOneOfFour ==
    \A t \in trace :
        /\ QuickOutcome(t.row) \in {"linked", "ambiguous", "no-match", "missing-fields"}
        /\ QuickOutcome(t.row) = "missing-fields" <=> MissingFields(t)
        /\ MissingFields(t) => ~t.queried
        /\ ~MissingFields(t) => OutcomeRule(t)
        /\ QuickOutcome(t.row) = "ambiguous" => ~t.row.link

\* C11, amended: the outcome of every pass of quick link is one of linked,
\* ambiguous, no-match, missing-fields and search-exception; it is
\* missing-fields exactly when the title is empty or the first author is absent
\* or 'Unknown', and then no catalog query is made; otherwise the query is made,
\* the outcome is search-exception exactly when the query raises and follows the
\* outcome rule when it returns; only a linked entity is proposed for linking.
C11_OutcomeRuleWhenQueryReturns ==
    \A t \in trace :
        /\ QuickOutcome(t.row) \in
              {"linked", "ambiguous", "no-match", "missing-fields", "exception"}
        /\ QuickOutcome(t.row) = "missing-fields" <=> MissingFields(t)
        /\ MissingFields(t) <=> ~t.queried
        /\ ~MissingFields(t) => (QuickOutcome(t.row) = "exception" <=> t.response.raises)
        /\ ~MissingFields(t) /\ ~t.response.raises => OutcomeRule(t)
        /\ t.row.link <=> QuickOutcome(t.row) = "linked"

\* A run that linked one book, and found another ambiguous because two server
\* items carry the one intersecting identifier, after a candidate of
\* similarity exactly .5 was left out of a no-match
C11_Witness ==
    /\ \E t \in trace : t.row.kind = "linked" /\ Len(t.response.products) = 2
    /\ \E t \in trace : t.row.kind = "same ASIN"
    /\ \E t \in trace :
          /\ t.row.kind = "none matched"
          /\ \E i \in 1..Len(t.response.products) :
                /\ t.response.products[i].asin \in ServerAsins
                /\ RatioAtLeastHalf(t.metadata.title, t.response.products[i].title)

\* book_id in QLCache['cache']
InCache(book) == \E i \in 1..Len(QLCache) : QLCache[i] = book

MaxSessions == 3

\* One session of GET /api/me/listening-sessions
Session(item, date, timeListening, startTime, currentTime, duration, startedAt, updatedAt) ==
    [libraryItemId |-> item, date |-> date, timeListening |-> timeListening,
     startTime |-> startTime, currentTime |-> currentTime, duration |-> duration,
     startedAt |-> startedAt, updatedAt |-> updatedAt]

\* The raw sessions explored, all of item i1 but the last: listened at speed 1;
\* at speed .8 on another day with 300 seconds left; at speed 5; complete, with
\* time elapsed; complete, with none elapsed (startedAt = updatedAt);
\* incomplete, with none elapsed; one of item i2
RawSessions ==
    { Session("i1", "d1", 100, 0, 10000, 100000, 0, 100000),
      Session("i1", "d2", 80, 62000, 70000, 100000, 200000, 300000),
      Session("i1", "d2", 100, 10000, 60000, 100000, 400000, 500000),
      Session("i1", "d3", 500, 0, 100040, 100090, 600000, 1100000),
      Session("i1", "d3", 0, 0, 100000, 100000, 700000, 700000),
      Session("i1", "d4", 0, 5000, 5000, 100000, 800000, 800000),
      Session("i2", "d1", 200, 0, 20000, 50000, 0, 100000) }

\* int(x) of a float that is not negative
IntOf(x) == x \div 100

\* a / b of two numbers in hundredths, in hundredths
Quotient(a, b) == PyFloat((a * 100) \div b)

\* The entry of a raw session in sessions_dict; Raised when the division of
\* the progression by the time elapsed raises ZeroDivisionError
SessionEntry(session) ==
    LET progression == session.currentTime - session.startTime
        sessionDuration == (session.updatedAt - session.startedAt) \div 10
        durationRemaining == IntOf(session.duration - session.currentTime)
    IN IF sessionDuration = 0 THEN Raised
       ELSE [k |-> "session",
             date |-> session.date,
             timeListening |-> session.timeListening,
             progression |-> progression,
             sessionDuration |-> sessionDuration,
             cleanSession |-> /\ 8 * sessionDuration <= 10 * progression
                              /\ progression <= 4 * sessionDuration,
             isComplete |-> /\ session.startTime = 0
                            /\ IntOf(session.currentTime) = IntOf(session.duration),
             durationRemaining |-> IF durationRemaining > 300 THEN durationRemaining ELSE 0,
             sessionSpeed |-> Quotient(progression, sessionDuration)]

\* sum(numbers)
RECURSIVE SumSeq(_)
SumSeq(numbers) ==
    IF numbers = <<>> THEN 0 ELSE Head(numbers) + SumSeq(Tail(numbers))

\* sum(s[key] for s in sessions)
Sum(sessions, key) == SumSeq([i \in 1..Len(sessions) |-> sessions[i][key]])

\* max((s["sessionSpeed"] for s in sessions), default=None)
MaxSpeed(sessions) ==
    IF sessions = <<>> THEN PyNone
    ELSE LET speeds == {sessions[i].sessionSpeed.n : i \in 1..Len(sessions)}
         IN PyFloat(CHOOSE n \in speeds : \A m \in speeds : m <= n)

\* The sessions of an item with nothing dropped
KeepAll(sessions) == sessions

\* The sessions of an item that are aggregated: the complete ones are dropped
\* when the item has more than one session and one of them is complete
Dedup(sessions) ==
    IF Len(sessions) > 1 /\ \E i \in 1..Len(sessions) : sessions[i].isComplete
    THEN SelectSeq(sessions, LAMBDA s : ~s.isComplete)
    ELSE sessions

\* The aggregates of the entries of one item
Aggregate(entries) ==
    LET sessions == Dedup(entries)
        filtered_sessions == SelectSeq(sessions, LAMBDA s : s.cleanSession)
        filtered_session_duration == Sum(filtered_sessions, "sessionDuration")
        filtered_progression == Sum(filtered_sessions, "progression")
    IN [sessions |-> sessions,
        session_count |-> Len(sessions),
        distinct_date_count |-> Cardinality({sessions[i].date : i \in 1..Len(sessions)}),
        total_time_listening |-> Sum(sessions, "timeListening"),
        total_session_duration |-> Sum(sessions, "sessionDuration"),
        total_progression |-> Sum(sessions, "progression"),
        filtered_session_count |-> Len(filtered_sessions),
        filtered_date_count |->
            Cardinality({filtered_sessions[i].date : i \in 1..Len(filtered_sessions)}),
        filtered_time_listening |-> Sum(filtered_sessions, "timeListening"),
        filtered_session_duration |-> filtered_session_duration,
        filtered_progression |-> filtered_progression,
        filtered_avg_session_duration |->
            IF filtered_sessions # <<>>
            THEN PyFloat(filtered_session_duration \div Len(filtered_sessions))
            ELSE PyNone,
        filtered_avg_speed |->
            IF filtered_session_duration # 0
            THEN Quotient(filtered_progression, filtered_session_duration)
            ELSE PyNone,
        filtered_max_speed |-> MaxSpeed(filtered_sessions)]

\* The raw sessions of an item, in the order of the response
SessionsOf(sessions_response, item) ==
    SelectSeq(sessions_response, LAMBDA s : s.libraryItemId = item)

\* sessions_dict of a response: Raised when building an entry raises, else
\* the aggregates of each item that has a session
SessionsDict(sessions_response) ==
    IF \E i \in 1..Len(sessions_response) : SessionEntry(sessions_response[i]) = Raised
    THEN Raised
    ELSE PyDict([item \in {sessions_response[i].libraryItemId :
                              i \in 1..Len(sessions_response)} |->
                    Aggregate([i \in 1..Len(SessionsOf(sessions_response, item)) |->
                                  SessionEntry(SessionsOf(sessions_response, item)[i])])])

\* The responses explored: up to MaxSessions raw sessions in any order
InitSessions ==
    /\ CONFIG = TitleNarrator
    /\ Syncing = FALSE
    /\ db \in [Books -> {m \in BookStates(CONFIG) :
                            Fresh(CONFIG, m) /\ m.audiobookshelf_id = "i1"}]
    /\ workers = <<>>
    /\ events = {}
    /\ requests = {}
    /\ dialogs = <<>>
    /\ syncs = 0
    /\ edits = 0
    /\ trace = {}
    /\ QLCache = <<>>
    /\ quickLinkWorker = NoWorker
    /\ cacheDialog = NoDialog
    /\ quicklinks = 0
    /\ calls = <<>>
    /\ audibleSyncWorker = NoWorker
    /\ args \in UNION {[1..n -> RawSessions] : n \in 1..MaxSessions}
    /\ result = <<>>

\* The loops of sync_from_audiobookshelf that build sessions_dict
BuildSessionsDict ==
    /\ result = <<>>
    /\ result' = <<SessionsDict(args)>>
    /\ UNCHANGED <<CONFIG, Syncing, db, workers, events, requests, dialogs, syncs, edits,
                   trace, quickvars, menuvars, ratingvars, args>>

NextSessions == BuildSessionsDict

SpecSessions == InitSessions /\ [][NextSessions]_vars

\* -------------------------------------------------------- claims: sessions
\* The entries of the raw sessions of an item, and those the claim keeps
RawEntries(item) ==
    [i \in 1..Len(SessionsOf(args, item)) |-> SessionEntry(SessionsOf(args, item)[i])]

NonComplete(entries) == SelectSeq(entries, LAMBDA s : ~s.isComplete)

Clean(entries) == SelectSeq(entries, LAMBDA s : s.cleanSession)

\* The aggregates are computed over exactly the given entries
AggregatedOver(aggregates, entries) ==
    /\ aggregates.sessions = entries
    /\ aggregates.session_count = Len(entries)
    /\ aggregates.filtered_session_count = Len(Clean(entries))
    /\ aggregates.total_time_listening = Sum(entries, "timeListening")
    /\ aggregates.total_session_duration = Sum(entries, "sessionDuration")
    /\ aggregates.total_progression = Sum(entries, "progression")
    /\ aggregates.filtered_time_listening = Sum(Clean(entries), "timeListening")
    /\ aggregates.filtered_session_duration = Sum(Clean(entries), "sessionDuration")
    /\ aggregates.filtered_progression = Sum(Clean(entries), "progression")

NullOnZero(aggregates) ==
    /\ aggregates.filtered_session_count = 0 =>
          aggregates.filtered_avg_session_duration = PyNone
    /\ aggregates.filtered_session_duration = 0 => aggregates.filtered_avg_speed = PyNone

\* C14: building sessions_dict never raises, whatever the raw sessions are,
\* and every quotient of the aggregates with a zero denominator is null.
C14_AggregationNeverRaises ==
    result # <<>> =>
        /\ result[1] # Raised
        /\ \A item \in DOMAIN result[1].d : NullOnZero(result[1].d[item])

\* C25: per session, duration_remaining is duration - currentTime when that
\* difference is 300 seconds or more and 0 when it is below 300 seconds, over
\* differences of whole seconds, 300 included.
C25_RemainingClampedBelow300 ==
    result # <<>> =>
    \A i \in 1..Len(args) :
        LET session == args[i]
            difference == session.duration - session.currentTime
        IN (/\ "libraryItemId" \in DOMAIN session
            /\ SessionEntry(session) # Raised
            /\ difference % 100 = 0)
           => SessionEntry(session).durationRemaining
                 = IF difference < 300 * 100 THEN 0 ELSE difference \div 100

\* ================================================= resolving one column
\* The part of a pass of ABSSyncWorker.run that resolves one column against
\* the payload of the entity and stages it, examined for one column and one
\* payload at a time.

\* The columns whose descriptor has a path
PathKeys == {key \in ColumnKeys : COLUMNS[key].data_location # <<>>}

\* The payload that holds leaf at the end of path
RECURSIVE Nested(_, _)
Nested(path, leaf) ==
    IF path = <<>> THEN leaf ELSE PyDict(Head(path) :> Nested(Tail(path), leaf))

\* A value the server sends for each column
SampleValue(key) ==
    CASE COLUMNS[key].api_source = "lib_items" -> PyStr(<<"S", " ", "#", "2">>)
      [] key = "column_audiobook_finished" -> PyBool(TRUE)
      [] key = "column_audiobook_lastread" -> PyInt(2000)
      [] key = "column_audiobook_listen_time" -> PyInt(100)
      [] OTHER -> PyFloat(30)

\* What the worker looks up for an entity the source knows nothing of
AbsentPayload(key) ==
    CASE COLUMNS[key].api_source = "sessions" -> PyDict(<<>>)
      [] COLUMNS[key].api_source = "collections" -> PyList(<<>>)
      [] OTHER -> PyNone

\* The payloads explored for a column: absent; complete; and, for each proper
\* prefix of the path, one that ends there in an empty mapping, in null, and
\* (below the top) in a string
Payloads(key) ==
    LET path == COLUMNS[key].data_location
    IN IF COLUMNS[key].api_source = "collections"
       THEN {AbsentPayload(key), PyList(<< <<"C">> >>)}
       ELSE {AbsentPayload(key), Nested(path, SampleValue(key))}
            \cup {Nested(SubSeq(path, 1, n), PyDict(<<>>)) : n \in 0..(Len(path) - 1)}
            \cup {Nested(SubSeq(path, 1, n), PyNone) : n \in 1..Len(path)}
            \cup {Nested(SubSeq(path, 1, n), PyStr(<<"x">>)) : n \in 1..(Len(path) - 1)}

\* One column bound, one payload, a book whose column holds any earlier value
InitResolve ==
    /\ \E key \in PathKeys, multiple \in BOOLEAN :
          /\ multiple => key = "column_audiobook_narrator"
          /\ CONFIG = Config({key}, multiple, FALSE, FALSE, FALSE, FALSE, FALSE)
          /\ \E payload \in Payloads(key) :
                args = [key |-> key, payload |-> payload]
    /\ Syncing = FALSE
    /\ db \in [Books -> {m \in BookStates(CONFIG) :
                            m.audiobookshelf_id = "i1" /\ m.audible = PyNone}]
    /\ \A b \in Books : b > 1 => Fresh(CONFIG, db[b])
    /\ workers = <<>>
    /\ events = {}
    /\ requests = {}
    /\ dialogs = <<>>
    /\ syncs = 0
    /\ edits = 0
    /\ trace = {}
    /\ QLCache = <<>>
    /\ quickLinkWorker = NoWorker
    /\ cacheDialog = NoDialog
    /\ quicklinks = 0
    /\ calls = <<>>
    /\ audibleSyncWorker = NoWorker
    /\ result = <<>>

\* The body of the column loop for args.key over book 1, the payload of
\* the column's source being args.payload: the raw value, the value after
\* transform and coercion, and whether the column is staged
ResolveColumn ==
    /\ result = <<>>
    /\ LET raw == ResolveIn(args.key, args.payload, args.payload, args.payload, args.payload)
           value == NewValueOf(db[1], args.key, raw)
       IN result' = << [raw |-> raw,
                        value |-> value,
                        raised |-> value.k = "raise",
                        staged |-> /\ value.k \notin {"none", "raise"}
                                   /\ value # MetaGet(db[1], args.key)] >>
    /\ UNCHANGED <<CONFIG, Syncing, db, workers, events, requests, dialogs, syncs, edits,
                   trace, quickvars, menuvars, ratingvars, args>>

NextResolve == ResolveColumn

SpecResolve == InitResolve /\ [][NextResolve]_vars

\* ------------------------------------------------ claims: resolving a column
\* The payload is absent, or a segment of the path is missing from it, or a
\* node on the path is not a mapping
RECURSIVE Lacks(_, _)
Lacks(data, path) ==
    /\ path # <<>>
    /\ \/ data.k # "dict"
       \/ Head(path) \notin DOMAIN data.d
       \/ Lacks(data.d[Head(path)], Tail(path))

\* The payload of the column examined is absent or, being a mapping to descend
\* into, lacks the path
PayloadLacksPath ==
    \/ args.payload = AbsentPayload(args.key)
    \/ /\ COLUMNS[args.key].api_source # "collections"
       /\ Lacks(args.payload, COLUMNS[args.key].data_location)

\* C15 as stated: for every column whose descriptor has a path and every
\* payload that is absent or lacks the path, the column resolves to null
\* without raising and is not staged.
C15_LackingPayloadResolvesToNull ==
    result # <<>> /\ PayloadLacksPath =>
        /\ result[1].raw = PyNone
        /\ ~result[1].raised
        /\ ~result[1].staged

\* C15, amended: the same for every column that is resolved through its path
\* (the library item, the progress record, the session aggregates); the
\* collections column is not: for an entity in no collection it resolves to
\* the empty list without raising.
C15_PathResolvedLackingPayloadIsNull ==
    result # <<>> /\ PayloadLacksPath =>
        IF COLUMNS[args.key].api_source = "collections"
        THEN result[1].raw = PyList(<<>>) /\ ~result[1].raised
        ELSE /\ result[1].raw = PyNone
             /\ ~result[1].raised
             /\ ~result[1].staged

\* A title resolved against an item whose 'media' is a string, for a book
\* whose title column holds a value
C15_Witness ==
    /\ result # <<>>
    /\ args.key = "column_audiobook_title"
    /\ args.payload = PyDict("media" :> PyStr(<<"x">>))
    /\ db[1].cols["column_audiobook_title"] # PyNone
    /\ result[1].raw = PyNone /\ ~result[1].staged

\* C16: when the series column is resolved to a candidate (name, index), it
\* is not staged (and so gets no entry in the result row) if the column holds
\* that name and the book that index, and is staged as the pair (name, index)
\* if the name or the index differs.
C16_SameSeriesIsNotStaged ==
    /\ result # <<>>
    /\ args.key = "column_audiobook_series"
    /\ result[1].raw.k = "str"
    /\ Transform(args.key, result[1].raw).k = "tuple"
    => LET candidate == Transform(args.key, result[1].raw)
       IN IF /\ db[1].cols["column_audiobook_series"] = PyStr(candidate.s)
             /\ db[1].series_index = PyFloat(candidate.n)
          THEN ~result[1].staged
          ELSE result[1].staged /\ result[1].value = PyTuple(candidate.s, candidate.n)

\* The column holds series S with index 2.0 and the item's seriesName is
\* 'S #2': nothing is staged
C16_Witness ==
    /\ result # <<>>
    /\ args.key = "column_audiobook_series"
    /\ result[1].raw = PyStr(<<"S", " ", "#", "2">>)
    /\ db[1].cols["column_audiobook_series"] = PyStr(<<"S">>)
    /\ db[1].series_index = PyFloat(200)
    /\ ~result[1].staged

\* ------------------------------------------------- link, unlink, list
\* link_audiobookshelf_book, unlink_audiobookshelf_book, show_not_in_calibre
\* and sync_audible_rating, invoked from the menu next to the sync and quick link.
MaxCalls == 2

MenuOps == {"link_audiobookshelf_book", "unlink_audiobookshelf_book",
            "show_not_in_calibre", "sync_audible_rating"}

\* The number of invocations of these so far
MenuCalls == Cardinality({i \in 1..Len(calls) : calls[i].op \in MenuOps})

\* metadata.set(col_lookup_name, None) for every bound column, written with
\* force_changes=True, set_title=False, set_authors=False
ClearColumns(cfg, metadata) ==
    [metadata EXCEPT
        !.cols = [key \in DOMAIN metadata.cols |->
                    IF key \in cfg.columns THEN EmptyValue(cfg, key)
                    ELSE metadata.cols[key]],
        !.series_index = IF "column_audiobook_series" \in cfg.columns
                         THEN PyNone ELSE metadata.series_index]

\* One book of the loop of unlink_audiobookshelf_book
ClearOnly(cfg, metadata) == ClearColumns(cfg, metadata)

Unlink(cfg, metadata) ==
    [ClearColumns(cfg, metadata) EXCEPT !.audiobookshelf_id = ""]

\* The notifications of the fields a write changed, where a listener is registered
Changed(cfg, book, before, after, cause) ==
    IF cfg.checkbox_enable_writeback
    THEN {[field |-> key, book |-> book, cause |-> cause] :
             key \in {k \in cfg.columns : before.cols[k] # after.cols[k]}}
    ELSE {}

\* The choices of the user in the LinkDialog of one book
Choices == ServerIds \cup {"skip", "cancel"}

\* One book of the loop of link_audiobookshelf_book, the user having chosen abs_id
Link(cfg, metadata, abs_id) ==
    LET cleared == IF metadata.audiobookshelf_id # ""
                   THEN ClearColumns(cfg, metadata) ELSE metadata
    IN [cleared EXCEPT
           !.audiobookshelf_id = abs_id,
           !.audible = IF cfg.checkbox_enable_Audible_ASIN_sync
                       THEN get_nested_value(ItemGet(abs_id), <<"media", "metadata", "asin">>)
                       ELSE metadata.audible]

link_audiobookshelf_book(fetch, failed, selected, choice) ==
    /\ MenuCalls < MaxCalls
    /\ LET op == "link_audiobookshelf_book"
           got == get_abs_library_items(CONFIG, fetch, abs_items)
           libs == IF got.requested THEN <<"libraries">> ELSE <<>>
           after == [b \in Books |->
                        IF b \in selected /\ choice[b] \in ServerIds
                        THEN Link(CONFIG, db[b], choice[b]) ELSE db[b]]
           call == IF got.items = <<>>
                   THEN Call(op, got.dialogs \o <<"API Error">>, libs,
                             FailedLibraries(CONFIG, fetch), "", FALSE)
                   ELSE IF "me" \in failed
                   THEN Call(op, <<"API Error">>, libs \o <<"me">>, "me", "", FALSE)
                   ELSE IF selected = {}
                   THEN Call(op, <<"No Selection">>, libs \o <<"me">>, "", "", FALSE)
                   ELSE [Call(op, <<"Link Results">>, libs \o <<"me">>, "", "", TRUE)
                            EXCEPT !.books = selected]
       IN /\ calls' = Append(calls, call)
          /\ dialogs' = dialogs \o call.dialogs
          /\ db' = IF call.started THEN after ELSE db
          /\ events' = IF call.started
                       THEN events \cup UNION {Changed(CONFIG, b, db[b], after[b], "link") :
                                                  b \in Books}
                       ELSE events
    /\ UNCHANGED <<CONFIG, Syncing, workers, requests, syncs, edits, trace>>
    /\ UNCHANGED <<quickvars, funvars, ratingvars>>

unlink_audiobookshelf_book(selected) ==
    /\ MenuCalls < MaxCalls
    /\ LET op == "unlink_audiobookshelf_book"
           after == [b \in Books |->
                        IF b \in selected
                        THEN Unlink(CONFIG, db[b]) ELSE db[b]]
           call == IF selected = {}
                   THEN Call(op, <<"No Selection">>, <<>>, "", "", FALSE)
                   ELSE [Call(op, <<"Unlinked From Audiobookshelf">>, <<>>, "", "", TRUE)
                            EXCEPT !.books = selected]
       IN /\ calls' = Append(calls, call)
          /\ dialogs' = dialogs \o call.dialogs
          /\ db' = after
          /\ events' = events \cup UNION {Changed(CONFIG, b, db[b], after[b], "unlink") :
                                             b \in Books}
    /\ UNCHANGED <<CONFIG, Syncing, workers, requests, syncs, edits, trace>>
    /\ UNCHANGED <<quickvars, funvars, ratingvars>>

show_not_in_calibre(fetch) ==
    /\ MenuCalls < MaxCalls
    /\ LET op == "show_not_in_calibre"
           got == get_abs_library_items(CONFIG, fetch, abs_items)
           libs == IF got.requested THEN <<"libraries">> ELSE <<>>
           call == IF got.items = <<>>
                   THEN Call(op, got.dialogs \o <<"API Error">>, libs,
                             FailedLibraries(CONFIG, fetch), "", FALSE)
                   ELSE Call(op, <<"Unlinked Audiobookshelf Books">>, libs, "", "", TRUE)
       IN /\ calls' = Append(calls, call)
          /\ dialogs' = dialogs \o call.dialogs
    /\ UNCHANGED <<CONFIG, Syncing, db, workers, events, requests, syncs, edits, trace>>
    /\ UNCHANGED <<quickvars, funvars, ratingvars>>

\* ------------------------------------------------- rating sync
\* The books that carry an Audible identifier, with the metadata read at the start
RECURSIVE RatingBooks(_, _)
RatingBooks(store, b) ==
    IF b > NumBooks THEN <<>>
    ELSE (IF store[b].audible # PyNone
          THEN <<[book_id |-> b, metadata |-> store[b]]>> ELSE <<>>)
         \o RatingBooks(store, b + 1)

\* The number of ratings Audible answers for the one ASIN it knows:
\* PyNone for a product without 'rating'
Ratings == {PyNone, PyInt(5), PyInt(7)}

\* COLUMNS[config_key]['data_location'] of the Audible columns
AudibleLocation(config_key) ==
    IF config_key = "column_audible_avgrating"
    THEN <<"rating", "overall_distribution", "display_stars">>
    ELSE <<"rating", "overall_distribution", "num_ratings">>

\* The product Audible answers for ASIN B1: 4.5 stars and the given number of
\* ratings, or no 'rating' at all
AudibleProduct(rating) ==
    IF rating = PyNone THEN PyDict("asin" :> PyStr(<<"B1">>))
    ELSE PyDict(("asin" :> PyStr(<<"B1">>))
                @@ ("rating" :> PyDict("overall_distribution" :>
                        PyDict(("display_stars" :> PyFloat(450))
                               @@ ("num_ratings" :> rating)))))

\* audible_ratings.get(ASIN, {}): Audible knows B1 alone
RatingsGet(audible_ratings, ASIN) ==
    IF ASIN = PyStr(<<"B1">>) THEN audible_ratings ELSE PyDict(<<>>)

\* The value of a column for a product: a float is stored as int(new_value*2)
RatingValue(product, config_key) ==
    LET new_value == get_nested_value(product, AudibleLocation(config_key))
    IN IF new_value.k = "float" THEN PyInt((new_value.n * 2) \div 100) ELSE new_value

\* The columns of a book whose value differs from the one read at the start
RatingChanges(cfg, product, metadata) ==
    {name \in DOMAIN cfg.audible_columns :
        RatingValue(product, cfg.audible_columns[name]) # metadata[name]}

\* The row of log a pass appends and completes: its keys are 'title', 'ASIN',
\* 'error' when no rating was found, and the names of the columns written
RatingRow(cfg, product, book) ==
    IF "rating" \notin DOMAIN product.d
    THEN [book |-> book.book_id, error |-> TRUE, changes |-> {}]
    ELSE [book |-> book.book_id, error |-> FALSE,
          changes |-> RatingChanges(cfg, product, book.metadata)]

\* key.startswith('#') of a column name
StartsWithHash(key) == key \in {"#audible_avgrating", "#audible_numratings"}

\* The counts of the summary: Updated are the rows with a key that starts
\* with '#', Skipped the rows of two keys, Failed the rows with 'error'
RatingCounts(log, total) ==
    [total |-> total,
     updated |-> Cardinality({i \in 1..Len(log) :
                                 \E key \in log[i].changes : StartsWithHash(key)}),
     skipped |-> Cardinality({i \in 1..Len(log) :
                                 ~log[i].error /\ log[i].changes = {}}),
     failed |-> Cardinality({i \in 1..Len(log) : log[i].error})]

\* No rating worker in flight
RatingIdle == audibleSyncWorker.state \in {"none", "reported"}

\* sync_audible_rating up to the start of its worker; search_ok: urlopen in
\* audible_search answers
sync_audible_rating(rating, search_ok) ==
    /\ MenuCalls < MaxCalls
    /\ LET op == "sync_audible_rating"
           bookList == RatingBooks(db, 1)
           call == IF ~CONFIG.checkbox_enable_Audible_ASIN_sync
                   THEN Call(op, <<"Configuration Error">>, <<>>, "", "", FALSE)
                   ELSE IF DOMAIN CONFIG.audible_columns = {}
                   THEN Call(op, <<"Configuration Error">>, <<>>, "", "", FALSE)
                   ELSE IF bookList = <<>>
                   THEN Call(op, <<"No Linked Books/ASINs">>, <<>>, "", "", FALSE)
                   ELSE IF ~search_ok
                   THEN Call(op, <<>>, <<"audible">>, "audible", "URLError", FALSE)
                   ELSE Call(op, <<>>, <<"audible">>, "", "", TRUE)
       IN /\ calls' = Append(calls, call)
          /\ dialogs' = dialogs \o call.dialogs
          /\ audibleSyncWorker' =
                IF call.started
                THEN [state |-> "running", bookList |-> bookList, idx |-> 0,
                      rating |-> rating, log |-> <<>>]
                ELSE audibleSyncWorker
    /\ UNCHANGED <<CONFIG, Syncing, db, workers, events, requests, syncs, edits, trace>>
    /\ UNCHANGED <<quickvars, funvars>>

\* One pass of AudibleSyncWorker.run: each column is compared with the value
\* read at the start and written with the metadata read at the start
RatingStep ==
    /\ audibleSyncWorker.state = "running"
    /\ LET idx == audibleSyncWorker.idx + 1
           book == audibleSyncWorker.bookList[idx]
           product == RatingsGet(AudibleProduct(audibleSyncWorker.rating),
                                 book.metadata.audible)
           row == RatingRow(CONFIG, product, book)
           set == [f \in DOMAIN book.metadata |->
                     IF f \in row.changes
                     THEN RatingValue(product, CONFIG.audible_columns[f])
                     ELSE book.metadata[f]]
           after == IF row.changes # {}
                    THEN SetMetadata(db[book.book_id], set)
                    ELSE db[book.book_id]
       IN /\ db' = [db EXCEPT ![book.book_id] = after]
          /\ events' = events \cup Changed(CONFIG, book.book_id, db[book.book_id], after,
                                           "rating")
          /\ audibleSyncWorker' =
                [audibleSyncWorker EXCEPT
                    !.idx = idx,
                    !.log = Append(@, row),
                    !.state = IF idx = Len(audibleSyncWorker.bookList)
                              THEN "emitted" ELSE "running"]
    /\ UNCHANGED <<CONFIG, Syncing, workers, requests, dialogs, syncs, edits, trace>>
    /\ UNCHANGED <<quickvars, funvars, menuvars>>

\* on_finished of the rating sync: the dialog with the counts of the summary
rating_on_finished ==
    /\ audibleSyncWorker.state = "emitted"
    /\ audibleSyncWorker' =
          [audibleSyncWorker EXCEPT !.state = "reported"]
          @@ [summary |-> RatingCounts(audibleSyncWorker.log,
                                       Len(audibleSyncWorker.bookList))]
    /\ dialogs' = Append(dialogs, "Audible Ratings Updated")
    /\ UNCHANGED <<CONFIG, Syncing, db, workers, events, requests, syncs, edits, trace>>
    /\ UNCHANGED <<quickvars, funvars, menuvars>>

\* Configurations that bind a column of every source, with and without the key
MenuConfig(abs_key, asin_sync) ==
    [Config({"column_audiobook_title", "column_audiobook_progress_int",
             "column_audiobook_listen_time", "column_audiobook_collections"},
            FALSE, FALSE, FALSE, FALSE, asin_sync, FALSE)
        EXCEPT !.abs_key = abs_key]
        @@ ("checkbox_cache_QuickLink_history" :> FALSE)
        @@ ("audible_columns" :> ("#audible_numratings" :> "column_audible_numratings"))

\* A book all of whose bound columns hold what a sync wrote
Written(cfg, m) ==
    /\ m.status = PyNone
    /\ m.series_index = PyNone
    /\ \A key \in ColumnKeys :
          IF key \in cfg.columns
          THEN m.cols[key] # EmptyValue(cfg, key)
               /\ (key = "column_audiobook_progress_int" => m.cols[key] = PyInt(20))
          ELSE m.cols[key] = EmptyValue(cfg, key)

MenuBooks(cfg) ==
    {m @@ ("#audible_numratings" :> PyNone) :
        m \in {n \in BookStates(cfg) :
                  \/ Fresh(cfg, n) /\ n.audiobookshelf_id \in {"", "i2"}
                  \/ Written(cfg, n) /\ n.audiobookshelf_id = "i1"}}

\* The first book is not linked or was synced; the later books were never written
InitMenu ==
    /\ CONFIG \in {MenuConfig(abs_key, asin_sync) :
                      abs_key \in {"", "k"}, asin_sync \in BOOLEAN}
    /\ Syncing = FALSE
    /\ db \in [Books -> MenuBooks(CONFIG)]
    /\ db[1].audiobookshelf_id # "i2"
    /\ \A b \in Books : b > 1 => Fresh(CONFIG, db[b])
    /\ workers = <<>>
    /\ events = {}
    /\ requests = {}
    /\ dialogs = <<>>
    /\ syncs = 0
    /\ edits = 0
    /\ trace = {}
    /\ QLCache = <<>>
    /\ quickLinkWorker = NoWorker
    /\ cacheDialog = NoDialog
    /\ quicklinks = 0
    /\ calls = <<>>
    /\ audibleSyncWorker = NoWorker
    /\ NoCall

\* The invocations explored in all
MaxMenuOps == 2

\* The answers of the Audible search explored here: none, a product the server
\* holds, and an exception
MenuResponses ==
    { [raises |-> TRUE, products |-> <<>>, total_results |-> 0],
      Response(<<>>),
      Response(<<Product(<<"B1">>, <<"A", "B">>)>>) }

\* The operations of the menu invoked at any moment, every request of theirs
\* failing or not, and the workers they start
NextMenu ==
    \/ \E fetch \in FetchOutcomes, failed \in SUBSET Endpoints :
          /\ Len(calls) < MaxMenuOps
          /\ Idle
          /\ sync_from_audiobookshelf(FALSE, fetch, failed)
    \/ \E w \in 1..Len(workers) : WorkerRead(w)
    \/ \E w \in 1..Len(workers) : WorkerWrite(w, TRUE)
    \/ \E w \in 1..Len(workers) : on_finished(w)
    \/ \E fetch \in FetchOutcomes :
          /\ Len(calls) < MaxMenuOps
          /\ QuickIdle
          /\ quick_link_books(fetch)
    \/ \E response \in MenuResponses : QuickLinkStep(response)
    \/ \E confirmed \in BOOLEAN, checked \in SUBSET (1..NumBooks) :
          /\ quickLinkWorker.state = "emitted"
          /\ \E order \in Permutations(1..Len(quickLinkWorker.results)) :
                quick_on_finished(confirmed, checked, order)
    \/ \E fetch \in FetchOutcomes, failed \in SUBSET {"me"}, selected \in SUBSET Books :
          \E choice \in [Books -> Choices] :
             /\ Len(calls) < MaxMenuOps
             /\ link_audiobookshelf_book(fetch, failed, selected, choice)
    \/ \E selected \in SUBSET Books :
          /\ Len(calls) < MaxMenuOps
          /\ unlink_audiobookshelf_book(selected)
    \/ \E fetch \in FetchOutcomes :
          /\ Len(calls) < MaxMenuOps
          /\ show_not_in_calibre(fetch)
    \/ \E rating \in Ratings, search_ok \in BOOLEAN :
          /\ Len(calls) < MaxMenuOps
          /\ RatingIdle
          /\ sync_audible_rating(rating, search_ok)
    \/ RatingStep
    \/ rating_on_finished

SpecMenu == InitMenu /\ [][NextMenu]_vars

\* ------------------------------------------------- claims: menu operations
\* The operations that need the server
ServerOps == {"sync_from_audiobookshelf", "quick_link_books",
              "link_audiobookshelf_book", "show_not_in_calibre"}

\* The invocation ended on a check of the library alone, before it needed the server
EndedLocally(call) ==
    call.dialogs \in {<<"No Linked Books">>, <<"All Books Linked">>,
                      <<"All Books Linked or Tried">>, <<"No Selection">>}

\* C17: with the API key missing, every invocation of sync, quick link, manual
\* link and list-unlinked that gets to need the server shows exactly one
\* dialog, the configuration error, and sends no request.
C17_MissingKeyOneDialogNoRequest ==
    CONFIG.abs_key = "" =>
       \A i \in 1..Len(calls) :
          calls[i].op \in ServerOps /\ ~EndedLocally(calls[i]) =>
             /\ calls[i].dialogs = <<"Configuration Error">>
             /\ calls[i].fetches = <<>>
             /\ ~calls[i].started

\* C18: a sync one of whose top-level fetches (libraries and items, /api/me,
\* collections and playlists, listening sessions) gets no response shows
\* exactly one dialog and returns: it starts no worker and raises nothing.
C18_FailedFetchOneDialogNoRaise ==
    \A i \in 1..Len(calls) :
       calls[i].op = "sync_from_audiobookshelf" /\ calls[i].failed # "" =>
          /\ Len(calls[i].dialogs) = 1
          /\ ~calls[i].started
          /\ calls[i].raised = ""

\* The invocation a step appends to the history, <<>> when it appends none
Invoked == IF Len(calls') = Len(calls) + 1 THEN <<calls'[Len(calls')]>> ELSE <<>>

\* The step is an unlink whose selection holds book b
Unlinks(b) ==
    /\ Invoked # <<>>
    /\ Invoked[1].op = "unlink_audiobookshelf_book"
    /\ b \in Invoked[1].books

\* A book as unlink leaves it: no identifier, every bound column empty
Unlinked(b) ==
    /\ db'[b].audiobookshelf_id = ""
    /\ \A key \in CONFIG.columns : db'[b].cols[key] = EmptyValue(CONFIG, key)

OnlyBoundFields(before, after) ==
    /\ after.audiobookshelf_id = before.audiobookshelf_id
    /\ after.title = before.title
    /\ after.authors = before.authors
    /\ after.status = before.status
    /\ \A key \in ColumnKeys \ CONFIG.columns : after.cols[key] = before.cols[key]
    /\ "column_audiobook_series" \notin CONFIG.columns =>
          after.series_index = before.series_index
    /\ ~CONFIG.checkbox_enable_Audible_ASIN_sync => after.audible = before.audible

\* C20: a step of the sync worker writes only to books that carry the
\* audiobookshelf_id, and of such a book only bound columns (and the Audible
\* identifier when ASIN sync is enabled): a book that is not linked, and the
\* title, the authors and every other field of a linked book, are unchanged.
C20_SyncWritesOnlyBoundFieldsOfLinkedBooks ==
    [][workers' # workers =>
          \A b \in Books :
             /\ OnlyBoundFields(db[b], db'[b])
             /\ db[b].audiobookshelf_id = "" => db'[b] = db[b]]_vars

\* ------------------------------------------------- claims: the summary of a sync
\* C21: when a worker has finished, its three counters add up to the number
\* of linked books it was given, and so does the number of its result rows
\* ('Total books processed').
C21_EveryBookCountedAndReported ==
    \A w \in 1..Len(workers) :
       workers[w].state \in {"emitted", "reported"} =>
          /\ workers[w].num_success + workers[w].num_skip + workers[w].num_fail
                = Len(workers[w].book_ids)
          /\ Len(workers[w].results) = Len(workers[w].book_ids)

\* ------------------------------------------------- writeback of collections
\* The collections and playlists of the server: each a name, an id and the
\* items it holds. A collection may be named like a playlist label.
ServerCollection(name, id, items) == [name |-> name, id |-> id, items |-> items]

\* "PL " + playlist.get("name", "")
PlaylistLabel(name) == <<"P", "L", " ">> \o name

\* collection[0:3] == "PL "
IsPlaylistLabel(name) == SubSeq(name, 1, IF Len(name) < 3 THEN Len(name) ELSE 3) = <<"P", "L", " ">>

\* The (label, id, items) entries get_abs_collections walks, collections first
Labelled(server) ==
    server.collections
    \o [i \in 1..Len(server.playlists) |->
           [server.playlists[i] EXCEPT !.name = PlaylistLabel(@)]]

\* collections_map: label -> id, a later entry replacing an earlier one of the
\* same label
RECURSIVE CollectionsMap(_)
CollectionsMap(entries) ==
    IF entries = <<>> THEN <<>>
    ELSE LET last == entries[Len(entries)]
             rest == CollectionsMap(SubSeq(entries, 1, Len(entries) - 1))
         IN (last.name :> last.id) @@ rest

\* collections_dict.get(abs_id, []): the labels of the entries holding the item
RECURSIVE CollectionsOf(_, _)
CollectionsOf(entries, abs_id) ==
    IF entries = <<>> THEN <<>>
    ELSE (IF abs_id \in Head(entries).items THEN <<Head(entries).name>> ELSE <<>>)
         \o CollectionsOf(Tail(entries), abs_id)

InSeq(x, seq) == \E i \in 1..Len(seq) : seq[i] = x

\* One batch request of the listener
BatchRequest(label, collection_id, op, abs_id) ==
    [method |-> "POST",
     endpoint |-> IF IsPlaylistLabel(label) THEN "playlists" ELSE "collections",
     id |-> collection_id, op |-> op, item |-> abs_id]

\* The requests of one loop of the listener: for each label of labels that is
\* not in others and has an id in the map
RECURSIVE BatchRequests(_, _, _, _, _)
BatchRequests(labels, others, map, op, abs_id) ==
    IF labels = <<>> THEN <<>>
    ELSE (IF ~InSeq(Head(labels), others) /\ Head(labels) \in DOMAIN map
          THEN <<BatchRequest(Head(labels), map[Head(labels)], op, abs_id)>>
          ELSE <<>>)
         \o BatchRequests(Tail(labels), others, map, op, abs_id)

\* A listener that also asks for a collection to be made for an unknown label
CollectionsCreating(server, abs_id, new_value) ==
    IF abs_id = "" THEN <<>>
    ELSE [i \in 1..Len(new_value) |->
             [method |-> "POST", endpoint |-> "collections", id |-> "", op |-> "add",
              item |-> abs_id]]

\* event_listener for a watched collections column of one book: the requests
\* it sends, in order
CollectionsWriteback(server, abs_id, new_value) ==
    IF abs_id = "" THEN <<>>
    ELSE LET entries == Labelled(server)
             map == CollectionsMap(entries)
             server_collections == CollectionsOf(entries, abs_id)
         IN BatchRequests(server_collections, new_value, map, "remove", abs_id)
            \o BatchRequests(new_value, server_collections, map, "add", abs_id)

\* The servers explored: a collection "C", a collection named "PL P" and a
\* playlist "P", each absent, without the item or holding it
Holdings == {"absent", "without", "with"}

Held(holding, name, id) ==
    IF holding = "absent" THEN <<>>
    ELSE <<ServerCollection(name, id, IF holding = "with" THEN {"i1"} ELSE {})>>

Servers ==
    {[collections |-> Held(c, <<"C">>, "c1") \o Held(q, <<"P", "L", " ", "P">>, "c2"),
      playlists |-> Held(p, <<"P">>, "p1")] : c \in Holdings, q \in Holdings, p \in Holdings}

\* The values of the column: lists over an existing collection, the playlist
\* label and a name the server does not have
LocalValues ==
    {<<>>, << <<"C">> >>, << <<"P", "L", " ", "P">> >>, << <<"N">> >>,
     << <<"C">>, <<"N">> >>, << <<"N">>, <<"P", "L", " ", "P">> >>,
     << <<"C">>, <<"P", "L", " ", "P">>, <<"N">> >>}

InitCollections ==
    /\ CONFIG = [Config({"column_audiobook_collections"}, FALSE, FALSE, FALSE, FALSE,
                        FALSE, TRUE) EXCEPT !.abs_key = "k"]
    /\ Syncing = FALSE
    /\ db \in [Books -> {m \in BookStates(CONFIG) : Fresh(CONFIG, m)
                                                     /\ m.audiobookshelf_id = ""}]
    /\ workers = <<>>
    /\ events = {}
    /\ requests = {}
    /\ dialogs = <<>>
    /\ syncs = 0
    /\ edits = 0
    /\ trace = {}
    /\ QLCache = <<>>
    /\ quickLinkWorker = NoWorker
    /\ cacheDialog = NoDialog
    /\ quicklinks = 0
    /\ calls = <<>>
    /\ audibleSyncWorker = NoWorker
    /\ args \in [server : Servers, abs_id : {"", "i1"}, new_value : LocalValues]
    /\ result = <<>>

WriteBackCollections ==
    /\ result = <<>>
    /\ result' = <<CollectionsWriteback(args.server, args.abs_id, args.new_value)>>
    /\ UNCHANGED <<CONFIG, Syncing, db, workers, events, requests, dialogs, syncs, edits,
                   trace, quickvars, menuvars, ratingvars, args>>

NextCollections == WriteBackCollections

SpecCollections == InitCollections /\ [][NextCollections]_vars

\* ------------------------------------------------- claims: collections writeback
\* The ids of the server's collections and of its playlists
CollectionIds(server) ==
    {server.collections[i].id : i \in 1..Len(server.collections)}

PlaylistIds(server) ==
    {server.playlists[i].id : i \in 1..Len(server.playlists)}

\* The labels the server has: its collections' names and its playlists' labels
ServerLabels(server) ==
    {Labelled(server)[i].name : i \in 1..Len(Labelled(server))}

\* C22: the writeback of a collections column creates nothing: every request
\* is a batch add or remove of the book's item on the id of a collection or
\* playlist the server has, a local name the server does not have causes no
\* request, and a book without audiobookshelf_id causes none at all.
C22_CollectionsWritebackCreatesNothing ==
    result # <<>> =>
       LET sent == result[1]
           wanted == {args.new_value[i] : i \in 1..Len(args.new_value)}
                        \cap ServerLabels(args.server)
           adds == {i \in 1..Len(sent) : sent[i].op = "add"}
       IN /\ \A i \in 1..Len(sent) :
                /\ sent[i].method = "POST"
                /\ sent[i].op \in {"add", "remove"}
                /\ sent[i].item = args.abs_id
                /\ sent[i].id \in CollectionIds(args.server) \cup PlaylistIds(args.server)
          /\ Cardinality(adds) <= Cardinality(wanted)
          /\ wanted = {} => adds = {}
          /\ args.abs_id = "" => sent = <<>>

\* The column names a collection the server has, to which the item is added,
\* and a name it does not have, for which nothing is sent
C22_Witness ==
    /\ result # <<>>
    /\ args.abs_id = "i1"
    /\ args.new_value = << <<"C">>, <<"N">> >>
    /\ Len(args.server.collections) = 1 /\ args.server.collections[1].items = {}
    /\ args.server.playlists = <<>>
    /\ result[1] = << [method |-> "POST", endpoint |-> "collections", id |-> "c1",
                       op |-> "add", item |-> "i1"] >>

\* ==================================================== the started column
\* The column "Audiobook Started?" resolved for one book against the progress
\* records that sync_from_audiobookshelf builds from the answer of /api/me.

\* media_progress_dict.get(abs_id) for the answer me of /api/me
ProgressOf(me, abs_id) ==
    LET dict == AddBookmarks(ProgressDict(me.mediaProgress), me.bookmarks)
    IN IF abs_id \in DOMAIN dict THEN dict[abs_id] ELSE PyNone

\* The percent complete a progress record of the server may hold (a float is
\* kept in hundredths)
Percents == {PyInt(0), PyFloat(0), PyFloat(1), PyFloat(30), PyFloat(100), PyInt(1)}

\* The answers of /api/me: no progress record or one for item i1, and
\* bookmarks of item i1 or of another item
MeData ==
    [mediaProgress : {<<>>}
        \cup { << [libraryItemId |-> "i1",
                   prog |-> ("progress" :> p) @@ ("isFinished" :> PyBool(f))] >> :
               p \in Percents, f \in BOOLEAN },
     bookmarks : { <<>>,
                   << [libraryItemId |-> "i1", title |-> <<"m">>] >>,
                   << [libraryItemId |-> "i1", title |-> <<"m">>],
                      [libraryItemId |-> "i1", title |-> <<"n">>] >>,
                   << [libraryItemId |-> "i2", title |-> <<"m">>] >> }]

\* The started column bound, book 1 linked to i1 with any earlier value in
\* the column, and the progress record of i1 under one answer of /api/me
InitStarted ==
    /\ CONFIG = Config({"column_audiobook_started"}, FALSE, FALSE, FALSE, FALSE, FALSE, FALSE)
    /\ \E me \in MeData :
          args = [key |-> "column_audiobook_started",
                  payload |-> ProgressOf(me, "i1"),
                  me |-> me]
    /\ Syncing = FALSE
    /\ db \in [Books -> {m \in BookStates(CONFIG) :
                            m.audiobookshelf_id = "i1" /\ m.audible = PyNone}]
    /\ \A b \in Books : b > 1 => Fresh(CONFIG, db[b])
    /\ workers = <<>>
    /\ events = {}
    /\ requests = {}
    /\ dialogs = <<>>
    /\ syncs = 0
    /\ edits = 0
    /\ trace = {}
    /\ QLCache = <<>>
    /\ quickLinkWorker = NoWorker
    /\ cacheDialog = NoDialog
    /\ quicklinks = 0
    /\ calls = <<>>
    /\ audibleSyncWorker = NoWorker
    /\ result = <<>>

SpecStarted == InitStarted /\ [][NextResolve]_vars

\* ------------------------------------------------ claims: the started column
\* The percent complete of the progress record the column was resolved
\* against is greater than 0
PercentAboveZero ==
    /\ args.payload.k = "dict"
    /\ "progress" \in DOMAIN args.payload.d
    /\ args.payload.d["progress"].k \in {"int", "float"}
    /\ args.payload.d["progress"].n > 0

\* C23: the started column resolves to true exactly when the progress percent
\* of the entity is greater than 0; a record with percent 0 and a record that
\* exists only because of bookmarks do not resolve to true.
C23_StartedIffPercentAboveZero ==
    (result # <<>> /\ args.key = "column_audiobook_started")
        => ((result[1].value = PyBool(TRUE)) <=> PercentAboveZero)

\* ============================================ writeback and link, unlink
\* The listener of the writeback next to link_audiobookshelf_book and
\* unlink_audiobookshelf_book, the title column bound and watched.

\* Writeback enabled; the first book linked to i1 with any title in its
\* column, or not linked; the later books not linked or linked and empty
InitWriteback ==
    /\ CONFIG = TitleWriteback
    /\ Syncing = FALSE
    /\ db \in [Books -> BookStates(CONFIG)]
    /\ \A b \in Books :
          /\ db[b].audiobookshelf_id \in {"", "i1"}
          /\ db[b].audiobookshelf_id = "" \/ b > 1 => Fresh(CONFIG, db[b])
    /\ workers = <<>>
    /\ events = {}
    /\ requests = {}
    /\ dialogs = <<>>
    /\ syncs = 0
    /\ edits = 0
    /\ trace = {}
    /\ QLCache = <<>>
    /\ quickLinkWorker = NoWorker
    /\ cacheDialog = NoDialog
    /\ quicklinks = 0
    /\ calls = <<>>
    /\ audibleSyncWorker = NoWorker
    /\ NoCall

\* The user links, unlinks and edits once the notifications of the write
\* before were delivered, which happens while its results dialog is open
NextWriteback ==
    \/ \E selected \in SUBSET Books, choice \in [Books -> Choices] :
          /\ events = {}
          /\ link_audiobookshelf_book("items", {}, selected, choice)
    \/ \E selected \in SUBSET Books :
          /\ events = {}
          /\ unlink_audiobookshelf_book(selected)
    \/ \E book \in Books, key \in ColumnKeys :
          \E value \in OldValues(CONFIG, key) :
             /\ events = {}
             /\ UserEdit(book, key, value)
    \/ \E e \in events : event_listener(e)

SpecWriteback == InitWriteback /\ [][NextWriteback]_vars

\* --------------------------------------- claims: writeback and link, unlink
\* C28: with writeback enabled, no request goes to the server because of a
\* write of link_audiobookshelf_book or unlink_audiobookshelf_book: every
\* request of the listener answers an edit of the user.
C28_OwnWritesAreNotWrittenBack ==
    \A r \in requests : r.cause \notin {"link", "unlink"}

\* ======================================================= the rating sync
\* sync_audible_rating with its worker and its summary, over the destination
\* columns the configuration panel offers for a column of type rating: the
\* custom columns of that type and the built-in column 'rating'.

\* The destinations explored: the average rating in a custom column or in
\* 'rating', alone or next to the number of ratings in a custom column
RatingDestinations ==
    { ("#audible_avgrating" :> "column_audible_avgrating"),
      ("rating" :> "column_audible_avgrating"),
      ("#audible_avgrating" :> "column_audible_avgrating")
         @@ ("#audible_numratings" :> "column_audible_numratings"),
      ("rating" :> "column_audible_avgrating")
         @@ ("#audible_numratings" :> "column_audible_numratings") }

RatingConfig(audible_columns) ==
    [MenuConfig("k", TRUE) EXCEPT !.audible_columns = audible_columns]

\* The books explored: linked, with the ASIN Audible knows, another one or
\* none, each bound destination empty or holding what Audible answers
RatingStates(cfg) ==
    { [m EXCEPT !.audible = asin]
        @@ ("rating" :> stars) @@ ("#audible_avgrating" :> custom)
        @@ ("#audible_numratings" :> number) :
        m \in {n \in BookStates(cfg) : Fresh(cfg, n) /\ n.audiobookshelf_id = "i1"},
        asin \in {PyNone, PyStr(<<"B1">>), PyStr(<<"B2">>)},
        stars \in IF "rating" \in DOMAIN cfg.audible_columns
                  THEN {PyNone, PyInt(9)} ELSE {PyNone},
        custom \in IF "#audible_avgrating" \in DOMAIN cfg.audible_columns
                   THEN {PyNone, PyInt(9)} ELSE {PyNone},
        number \in IF "#audible_numratings" \in DOMAIN cfg.audible_columns
                   THEN {PyNone, PyInt(5)} ELSE {PyNone} }

InitRatings ==
    /\ CONFIG \in {RatingConfig(audible_columns) : audible_columns \in RatingDestinations}
    /\ Syncing = FALSE
    /\ db \in [Books -> RatingStates(CONFIG)]
    /\ workers = <<>>
    /\ events = {}
    /\ requests = {}
    /\ dialogs = <<>>
    /\ syncs = 0
    /\ edits = 0
    /\ trace = {}
    /\ QLCache = <<>>
    /\ quickLinkWorker = NoWorker
    /\ cacheDialog = NoDialog
    /\ quicklinks = 0
    /\ calls = <<>>
    /\ audibleSyncWorker = NoWorker
    /\ NoCall

NextRatings ==
    \/ \E rating \in Ratings, search_ok \in BOOLEAN :
          RatingIdle /\ sync_audible_rating(rating, search_ok)
    \/ RatingStep
    \/ rating_on_finished

SpecRatings == InitRatings /\ [][NextRatings]_vars

\* ------------------------------------------------ claims: the rating sync
\* C30: in the summary of the rating sync the counts Updated, Skipped and
\* Failed add up to 'Total books processed', whatever the destination columns
\* are (custom columns or the built-in 'rating') and whether the ratings
\* changed, did not change or are missing.
C30_RatingCountsAddUp ==
    audibleSyncWorker.state = "reported"
        => audibleSyncWorker.summary.updated + audibleSyncWorker.summary.skipped
              + audibleSyncWorker.summary.failed
           = audibleSyncWorker.summary.total

====
